---- MODULE Spec2Model ----
(***************************************************************************)
(* A model of terminal-calendar (tcal): the Schedule / AppState data       *)
(* model, the state persister (StateManager), the command-line commands    *)
(* that call it, and the interactive display session (CalendarApp).        *)
(*                                                                         *)
(* Three specifications share the pure operators below:                    *)
(*   Spec      one command, API call or session event at a time, each run  *)
(*             to completion, on one filesystem;                           *)
(*   SpecConc  two command processes whose load and save steps interleave  *)
(*             on one state file;                                          *)
(*   SpecSched Schedule construction applied to bounded task lists.        *)
(***************************************************************************)
EXTENDS Integers, Sequences, FiniteSets, TLC

VARIABLES
    fs,        \* Spec: the filesystem, path -> file
    now,       \* Spec: the wall clock, read by dt.datetime.now()
    session,   \* Spec: the running CalendarApp, or closed
    last,      \* Spec: the last operation, its input, outcome and the filesystem before it
    cfile,     \* SpecConc: the state file
    procs,     \* SpecConc: per process: command, position, loaded state, outcome
    hist,      \* SpecConc: initial state, completion order, whether commands overlapped
    sinput,    \* SpecSched: the task list and date handed to Schedule
    sresult    \* SpecSched: what construction returned

vars == <<fs, now, session, last, cfile, procs, hist, sinput, sresult>>
specVars == <<fs, now, session, last>>
concVars == <<cfile, procs, hist>>
schedVars == <<sinput, sresult>>

(***************************************************************************)
(* Bounds of the model.                                                    *)
(***************************************************************************)
MaxClock == 4      \* clock readings 0..MaxClock: at most MaxClock operations that read the clock
MaxNotes == 1      \* notes per task the note command is given in a run
MaxReports == 5       \* most report files in the reports directory
MaxReportTasks == 5   \* most tasks of a schedule handed to generate_report
MaxTasks == 3      \* longest task list handed to Schedule

(***************************************************************************)
(* Values.                                                                 *)
(***************************************************************************)
None == [none |-> TRUE]

TaskIds == {"t1", "t2", "t3"}

Range(s) == {s[i] : i \in DOMAIN s}

\* A list holding the members of a set once each (list(set) in Python: the
\* order is whatever the set iterates in).
SetToSeq(S) ==
    CHOOSE s \in [1..Cardinality(S) -> S] : Range(s) = S

\* dt.date values of the model, as records.
Date(y, m, d) == [year |-> y, month |-> m, day |-> d]
D1 == Date(2024, 3, 15)
D2 == Date(2024, 3, 16)
Dates == {D1, D2}

Pad2(n) == IF n < 10 THEN "0" \o ToString(n) ELSE ToString(n)

\* date.isoformat() / strftime("%Y-%m-%d")
isoformat(d) == ToString(d.year) \o "-" \o Pad2(d.month) \o "-" \o Pad2(d.day)

\* date.fromisoformat over the dates of the model; None for any other text
fromisoformat(s) ==
    IF \E d \in Dates : isoformat(d) = s
    THEN CHOOSE d \in Dates : isoformat(d) = s
    ELSE None

(***************************************************************************)
(* Exceptions: the classes the code raises and catches, with the part of   *)
(* Python's class hierarchy the except clauses depend on.                  *)
(***************************************************************************)
NoExc == "none"

ExcParent(e) ==
    CASE e = "JSONDecodeError" -> "ValueError"
      [] e = "UnicodeDecodeError" -> "ValueError"
      [] e = "ValidationError" -> "ValueError"
      [] e = "PermissionError" -> "OSError"
      [] e = "ValueError" -> "Exception"
      [] e = "OSError" -> "Exception"
      [] e = "StateManagerError" -> "Exception"
      [] e = "ScheduleParseError" -> "Exception"
      [] e = "Exception" -> "BaseException"
      [] e = "SystemExit" -> "BaseException"
      [] OTHER -> "BaseException"

\* isinstance(e, cls)
IsInstance(e, cls) ==
    LET p1 == ExcParent(e)
        p2 == ExcParent(p1)
        p3 == ExcParent(p2)
    IN  e # NoExc /\ cls \in {e, p1, p2, p3}

Caught(e, classes) == \E c \in classes : IsInstance(e, c)

(***************************************************************************)
(* Files.  A file is absent or has content; content is told apart by what  *)
(* open() and json.load() do with it.                                      *)
(***************************************************************************)
Absent == [kind |-> "absent"]
JsonFile(doc) == [kind |-> "json", doc |-> doc]   \* UTF-8 text that is a JSON document
TextFile(t) == [kind |-> "text", text |-> t]      \* UTF-8 text that is not JSON
BinaryFile == [kind |-> "binary"]                 \* bytes that are not UTF-8
LockedFile == [kind |-> "locked"]                 \* exists, open() is refused

\* What a writer leaves behind when it stops between open(path, "w"), which
\* empties the file, and the end of the write.
Truncated == TextFile("truncated")

\* Path.exists()
Exists(f) == f.kind # "absent"

\* with path.open("r", encoding="utf-8") as f: data = json.load(f)
ReadJson(f) ==
    CASE f.kind = "json" -> [exc |-> NoExc, value |-> f.doc]
      [] f.kind = "text" -> [exc |-> "JSONDecodeError", value |-> None]
      [] f.kind = "binary" -> [exc |-> "UnicodeDecodeError", value |-> None]
      [] f.kind = "locked" -> [exc |-> "PermissionError", value |-> None]
      [] OTHER -> [exc |-> "OSError", value |-> None]

(***************************************************************************)
(* TaskNote and AppState (models.py).  An AppState is a record             *)
(*   schedule_file, schedule_date, completed_tasks (a set),                *)
(*   task_notes (task id -> list of notes), last_updated.                  *)
(***************************************************************************)
\* An empty dict of notes
NoNotes == [k \in {} |-> << >>]

TaskNote(clock, content) == [timestamp |-> clock, content |-> content]

\* AppState(schedule_file=..., schedule_date=...): the other fields default
NewAppState(file, date, clock) ==
    [schedule_file |-> file,
     schedule_date |-> date,
     completed_tasks |-> {},
     task_notes |-> NoNotes,
     last_updated |-> clock]

\* A mark_complete that assigns the set instead of adding to it
Mut_mark_complete(state, task_id, clock) ==
    [state EXCEPT !.completed_tasks = {task_id},
                  !.last_updated = clock]

\* AppState.mark_complete
mark_complete(state, task_id, clock) ==
    [state EXCEPT !.completed_tasks = @ \cup {task_id},
                  !.last_updated = clock]

\* AppState.mark_incomplete
mark_incomplete(state, task_id, clock) ==
    [state EXCEPT !.completed_tasks = @ \ {task_id},
                  !.last_updated = clock]

\* AppState.is_complete
is_complete(state, task_id) == task_id \in state.completed_tasks

\* AppState.get_completion_percentage: the float it returns, kept as the
\* ratio num / den (100 * len(completed_tasks) / total_tasks)
get_completion_percentage(state, total_tasks) ==
    IF total_tasks = 0 THEN [num |-> 0, den |-> 1]
    ELSE [num |-> Cardinality(state.completed_tasks) * 100, den |-> total_tasks]

\* f"{x:.<decimals>f}" of a ratio x >= 0: the number printed, in units of
\* 10^-decimals, rounded to the nearest with ties to the even one
FormatFixed(x, decimals) ==
    LET Rounded(q, twice, d) ==
          IF twice < d THEN q
          ELSE IF twice > d THEN q + 1
          ELSE IF q % 2 = 0 THEN q ELSE q + 1
        Scaled(n, d) == Rounded(n \div d, 2 * (n % d), d)
    IN  Scaled(x.num * 10^decimals, x.den)

\* AppState.get_notes
get_notes(state, task_id) ==
    IF task_id \in DOMAIN state.task_notes THEN state.task_notes[task_id] ELSE << >>

\* AppState.add_note
add_note(state, task_id, content, clock) ==
    LET old == get_notes(state, task_id)
        keys == DOMAIN state.task_notes \cup {task_id}
    IN  [state EXCEPT
            !.task_notes = [k \in keys |->
                               IF k = task_id
                               THEN Append(old, TaskNote(clock, content))
                               ELSE state.task_notes[k]],
            !.last_updated = clock]

\* state.model_dump(mode="json"): the set becomes a list, the date its ISO text
model_dump(state) ==
    [schedule_file |-> state.schedule_file,
     schedule_date |-> isoformat(state.schedule_date),
     completed_tasks |-> SetToSeq(state.completed_tasks),
     task_notes |-> state.task_notes,
     last_updated |-> state.last_updated]

\* A model_validate that never reads completed_tasks: every load starts
\* with nothing completed
Mut_model_validate(doc, clock) ==
    IF /\ {"schedule_file", "schedule_date"} \subseteq DOMAIN doc
       /\ doc.schedule_file # ""
       /\ fromisoformat(doc.schedule_date) # None
    THEN [exc |-> NoExc,
          value |->
            [schedule_file |-> doc.schedule_file,
             schedule_date |-> fromisoformat(doc.schedule_date),
             completed_tasks |-> {},
             task_notes |->
                IF "task_notes" \in DOMAIN doc THEN doc.task_notes ELSE NoNotes,
             last_updated |->
                IF "last_updated" \in DOMAIN doc THEN doc.last_updated ELSE clock]]
    ELSE [exc |-> "ValidationError", value |-> None]

\* AppState.model_validate(data): schedule_file and schedule_date are
\* required, the rest default; the list becomes a set again.
model_validate(doc, clock) ==
    LET Build(schedule_date) ==
          IF doc.schedule_file # "" /\ schedule_date # None
          THEN [exc |-> NoExc,
                value |->
                  [schedule_file |-> doc.schedule_file,
                   schedule_date |-> schedule_date,
                   completed_tasks |->
                      IF "completed_tasks" \in DOMAIN doc
                      THEN Range(doc.completed_tasks) ELSE {},
                   task_notes |->
                      IF "task_notes" \in DOMAIN doc THEN doc.task_notes ELSE NoNotes,
                   last_updated |->
                      IF "last_updated" \in DOMAIN doc THEN doc.last_updated ELSE clock]]
          ELSE [exc |-> "ValidationError", value |-> None]
    IN  IF {"schedule_file", "schedule_date"} \subseteq DOMAIN doc
        THEN Build(fromisoformat(doc.schedule_date))
        ELSE [exc |-> "ValidationError", value |-> None]

(***************************************************************************)
(* StateManager (state_manager.py), as functions of the state file.        *)
(* Each returns the exception that leaves the method (NoExc for a normal   *)
(* return) with the value returned or the file left behind.                *)
(***************************************************************************)
\* How the write of one file goes: the device decides.
IoOutcomes == {"ok", "open_fails", "write_fails"}

\* The except clauses of load_state
LoadStateCatches == {"JSONDecodeError", "ValidationError", "OSError"}

\* StateManager.load_state
load_state(f, clock) ==
    LET Raise(v) == IF v.exc = NoExc THEN v
                    ELSE IF Caught(v.exc, LoadStateCatches)
                         THEN [exc |-> "StateManagerError", value |-> None]
                         ELSE [exc |-> v.exc, value |-> None]
        Validate(r) == IF r.exc = NoExc THEN model_validate(r.value, clock) ELSE r
    IN  IF ~Exists(f)
        THEN [exc |-> NoExc, value |-> None]
        ELSE Raise(Validate(ReadJson(f)))

\* StateManager.state_exists
state_exists(f) == Exists(f)

\* open(path, "w") then the write: open empties the file before anything is
\* written; an OSError at either point is what the caller sees.
WriteFile(f, content, io) ==
    CASE io = "ok" -> [exc |-> NoExc, file |-> content]
      [] io = "open_fails" -> [exc |-> "PermissionError", file |-> f]
      [] OTHER -> [exc |-> "OSError", file |-> Truncated]

\* StateManager.save_state: both except clauses raise StateManagerError
save_state(f, state, io) ==
    LET Raise(w) == IF w.exc = NoExc THEN w
                    ELSE IF Caught(w.exc, {"OSError", "Exception"})
                         THEN [exc |-> "StateManagerError", file |-> w.file]
                         ELSE w
    IN  Raise(WriteFile(f, JsonFile(model_dump(state)), io))

\* A clear_state without the exists() check: unlink of a missing file raises
Mut_clear_state(f, unlink_ok) ==
    IF Exists(f) /\ unlink_ok THEN [exc |-> NoExc, file |-> Absent]
    ELSE [exc |-> "StateManagerError", file |-> f]

\* StateManager.clear_state; unlink_ok is whether the device lets unlink succeed
clear_state(f, unlink_ok) ==
    IF ~Exists(f) THEN [exc |-> NoExc, file |-> f]
    ELSE IF unlink_ok THEN [exc |-> NoExc, file |-> Absent]
    ELSE [exc |-> "StateManagerError", file |-> f]

\* StateManager.mark_task_complete
mark_task_complete(f, task_id, clock, io) ==
    LET Loaded(l) ==
          IF l.exc # NoExc THEN [exc |-> l.exc, file |-> f]
          ELSE IF l.value = None THEN [exc |-> "StateManagerError", file |-> f]
          ELSE save_state(f, mark_complete(l.value, task_id, clock), io)
    IN  Loaded(load_state(f, clock))

\* A mark_task_incomplete that returns quietly when there is no state
Mut_mark_task_incomplete(f, task_id, clock, io) ==
    LET Loaded(l) ==
          IF l.exc # NoExc THEN [exc |-> l.exc, file |-> f]
          ELSE IF l.value = None THEN [exc |-> NoExc, file |-> f]
          ELSE save_state(f, mark_incomplete(l.value, task_id, clock), io)
    IN  Loaded(load_state(f, clock))

\* StateManager.mark_task_incomplete
mark_task_incomplete(f, task_id, clock, io) ==
    LET Loaded(l) ==
          IF l.exc # NoExc THEN [exc |-> l.exc, file |-> f]
          ELSE IF l.value = None THEN [exc |-> "StateManagerError", file |-> f]
          ELSE save_state(f, mark_incomplete(l.value, task_id, clock), io)
    IN  Loaded(load_state(f, clock))

(***************************************************************************)
(* Task and Schedule (models.py).  The text "HH:MM" of start_time and      *)
(* end_time is the pair <<HH, MM>> of its two numbers.                     *)
(***************************************************************************)
Task(id, start, end, priority) ==
    [id |-> id, title |-> id, start_time |-> start, end_time |-> end,
     description |-> "", priority |-> priority]

\* Task.get_start_time / get_end_time: the text parsed to a dt.time
get_start_time(task) == [hour |-> task.start_time[1], minute |-> task.start_time[2]]
get_end_time(task) == [hour |-> task.end_time[1], minute |-> task.end_time[2]]

\* dt.time comparison
TimeLess(a, b) == a.hour < b.hour \/ (a.hour = b.hour /\ a.minute < b.minute)
TimeLeq(a, b) == TimeLess(a, b) \/ a = b

\* Field(pattern=r"^([0-1][0-9]|2[0-3]):[0-5][0-9]$")
TimePatternOk(t) == t[1] \in 0..23 /\ t[2] \in 0..59

\* Task.validate_end_after_start: TRUE when the validator raises
EndNotAfterStart(start, end) ==
    LET start_minutes == start[1] * 60 + start[2]
        end_minutes == end[1] * 60 + end[2]
    IN  end_minutes <= start_minutes

\* Task.model_validate of one task document
TaskDocValid(td) ==
    /\ {"id", "title", "start_time", "end_time"} \subseteq DOMAIN td
    /\ td.id # ""
    /\ td.title # ""
    /\ TimePatternOk(td.start_time)
    /\ TimePatternOk(td.end_time)
    /\ ~EndNotAfterStart(td.start_time, td.end_time)
    /\ ("priority" \in DOMAIN td => td.priority \in {"high", "medium", "low"})

TaskFromDoc(td) ==
    [id |-> td.id, title |-> td.title,
     start_time |-> td.start_time, end_time |-> td.end_time,
     description |-> IF "description" \in DOMAIN td THEN td.description ELSE "",
     priority |-> IF "priority" \in DOMAIN td THEN td.priority ELSE "medium"]

\* A duplicate check that compares neighbours only
Mut_HasDuplicateIds(v) == \E i \in 1..(Len(v) - 1) : v[i].id = v[i + 1].id

\* Schedule.validate_unique_task_ids: TRUE when the validator raises
HasDuplicateIds(v) ==
    LET task_ids == [i \in DOMAIN v |-> v[i].id]
    IN  Len(task_ids) # Cardinality(Range(task_ids))

\* list.insert keeping equal keys in arrival order: x goes after every
\* element whose start is not later than its own
InsertByStart(sorted, x) ==
    LET At(n) == SubSeq(sorted, 1, n) \o <<x>> \o SubSeq(sorted, n + 1, Len(sorted))
    IN  At(Cardinality({i \in DOMAIN sorted :
                          TimeLeq(get_start_time(sorted[i]), get_start_time(x))}))

RECURSIVE SortedPrefix(_, _)
SortedPrefix(v, n) ==
    IF n = 0 THEN << >> ELSE InsertByStart(SortedPrefix(v, n - 1), v[n])

\* A sort_tasks_by_time that returns the list as given
Mut_sort_tasks_by_time(v) == v

\* Schedule.sort_tasks_by_time: sorted(v, key=get_start_time), a stable sort
sort_tasks_by_time(v) == SortedPrefix(v, Len(v))

\* Schedule(date=..., tasks=[...]) from Task objects: the two validators of
\* "tasks" run in the order they are declared
NewSchedule(date, tasks) ==
    IF HasDuplicateIds(tasks)
    THEN [exc |-> "ValidationError", value |-> None]
    ELSE [exc |-> NoExc,
          value |-> [date |-> date, tasks |-> sort_tasks_by_time(tasks)]]

\* Schedule.model_validate(data) / load_schedule_dict
schedule_model_validate(doc) ==
    LET Build(date, tasks) ==
          IF date # None /\ \A i \in DOMAIN tasks : TaskDocValid(tasks[i])
          THEN NewSchedule(date, [i \in DOMAIN tasks |-> TaskFromDoc(tasks[i])])
          ELSE [exc |-> "ValidationError", value |-> None]
    IN  IF "date" \in DOMAIN doc
        THEN Build(fromisoformat(doc.date),
                   IF "tasks" \in DOMAIN doc THEN doc.tasks ELSE << >>)
        ELSE [exc |-> "ValidationError", value |-> None]

\* schedule.model_dump(mode="json")
schedule_model_dump(schedule) ==
    [date |-> isoformat(schedule.date), tasks |-> schedule.tasks]

\* A get_task_by_id that falls back to the first task when none matches
Mut_get_task_by_id(schedule, task_id) ==
    IF \E i \in DOMAIN schedule.tasks : schedule.tasks[i].id = task_id
    THEN LET i == CHOOSE j \in DOMAIN schedule.tasks : schedule.tasks[j].id = task_id
         IN  schedule.tasks[i]
    ELSE IF schedule.tasks # << >> THEN schedule.tasks[1] ELSE None

\* Schedule.get_task_by_id
get_task_by_id(schedule, task_id) ==
    IF \E i \in DOMAIN schedule.tasks : schedule.tasks[i].id = task_id
    THEN LET i == CHOOSE j \in DOMAIN schedule.tasks :
                     /\ schedule.tasks[j].id = task_id
                     /\ \A k \in 1..(j - 1) : schedule.tasks[k].id # task_id
         IN  schedule.tasks[i]
    ELSE None

\* A get_current_task whose interval includes the end time
Mut_get_current_task(schedule, current_time) ==
    LET First(hits) == IF hits = {} THEN None
                       ELSE schedule.tasks[CHOOSE i \in hits : \A j \in hits : i <= j]
    IN  First({i \in DOMAIN schedule.tasks :
                 /\ TimeLeq(get_start_time(schedule.tasks[i]), current_time)
                 /\ TimeLeq(current_time, get_end_time(schedule.tasks[i]))})

\* A get_current_task that returns the last task of the list with
\* start <= current_time < end
Mut_current_task_last(schedule, current_time) ==
    LET Last(hits) == IF hits = {} THEN None
                      ELSE schedule.tasks[CHOOSE i \in hits : \A j \in hits : i >= j]
    IN  Last({i \in DOMAIN schedule.tasks :
                /\ TimeLeq(get_start_time(schedule.tasks[i]), current_time)
                /\ TimeLess(current_time, get_end_time(schedule.tasks[i]))})

\* Schedule.get_current_task: the first task of the list with
\* start <= current_time < end
get_current_task(schedule, current_time) ==
    LET First(hits) == IF hits = {} THEN None
                       ELSE schedule.tasks[CHOOSE i \in hits : \A j \in hits : i <= j]
    IN  First({i \in DOMAIN schedule.tasks :
                 /\ TimeLeq(get_start_time(schedule.tasks[i]), current_time)
                 /\ TimeLess(current_time, get_end_time(schedule.tasks[i]))})

\* A get_upcoming_tasks that keeps a task starting at current_time
Mut_get_upcoming_tasks(schedule, current_time, limit) ==
    LET Later(task) == TimeLeq(current_time, get_start_time(task))
        Slice(upcoming) ==
          SubSeq(upcoming, 1, IF limit >= 0
                              THEN (IF limit < Len(upcoming) THEN limit ELSE Len(upcoming))
                              ELSE Len(upcoming) + limit)
    IN  Slice(SelectSeq(schedule.tasks, Later))

\* Schedule.get_upcoming_tasks: upcoming[:limit]; a negative limit drops
\* that many tasks from the end
get_upcoming_tasks(schedule, current_time, limit) ==
    LET Later(task) == TimeLess(current_time, get_start_time(task))
        Slice(upcoming) ==
          SubSeq(upcoming, 1, IF limit >= 0
                              THEN (IF limit < Len(upcoming) THEN limit ELSE Len(upcoming))
                              ELSE Len(upcoming) + limit)
    IN  Slice(SelectSeq(schedule.tasks, Later))

\* load_schedule (schedule_parser.py)
load_schedule(f) ==
    LET Validated(v) == IF v.exc = NoExc THEN v
                        ELSE [exc |-> "ScheduleParseError", value |-> None]
        Read(r) == IF r.exc # NoExc
                   THEN IF Caught(r.exc, {"JSONDecodeError", "OSError"})
                        THEN [exc |-> "ScheduleParseError", value |-> None]
                        ELSE [exc |-> r.exc, value |-> None]
                   ELSE Validated(schedule_model_validate(r.value))
    IN  IF ~Exists(f) THEN [exc |-> "ScheduleParseError", value |-> None]
        ELSE Read(ReadJson(f))

\* The errors Task validation collects for the task document at position
\* i: every field that fails; the model validator (mode="after") runs only
\* when no field failed
TaskErrors(i, td) ==
    LET Err(what) == [task |-> i, what |-> what]
        Staged(fields) ==
          IF fields # {} THEN fields
          ELSE IF EndNotAfterStart(td.start_time, td.end_time)
               THEN {Err("end_not_after_start")}
               ELSE {}
    IN  Staged({Err("missing_" \o f) :
                   f \in {"id", "title", "start_time", "end_time"} \ DOMAIN td}
               \cup {Err("empty_" \o f) :
                        f \in {g \in {"id", "title"} \cap DOMAIN td : td[g] = ""}}
               \cup {Err("bad_" \o f) :
                        f \in {g \in {"start_time", "end_time"} \cap DOMAIN td :
                                 ~TimePatternOk(td[g])}}
               \cup {Err("bad_priority") :
                        f \in {g \in {"priority"} \cap DOMAIN td :
                                 td[g] \notin {"high", "medium", "low"}}})

\* e.errors() of the ValidationError Schedule.model_validate raises: the
\* errors of "date" and of every task; the validators of "tasks" run only
\* when every task is valid
validation_errors(doc) ==
    LET Staged(tasks, items) ==
          IF items # {} THEN items
          ELSE IF HasDuplicateIds([i \in DOMAIN tasks |-> TaskFromDoc(tasks[i])])
               THEN {[task |-> 0, what |-> "duplicate_ids"]}
               ELSE {}
        OfTasks(tasks) ==
          Staged(tasks, UNION {TaskErrors(i, tasks[i]) : i \in DOMAIN tasks})
    IN  (IF "date" \notin DOMAIN doc THEN {[task |-> 0, what |-> "missing_date"]}
         ELSE IF fromisoformat(doc.date) = None THEN {[task |-> 0, what |-> "bad_date"]}
         ELSE {})
        \cup OfTasks(IF "tasks" \in DOMAIN doc THEN doc.tasks ELSE << >>)

\* load_schedule: the error_messages its ScheduleParseError lists, one for
\* each of e.errors()
load_schedule_messages(f) ==
    IF f.kind = "json" THEN validation_errors(f.doc) ELSE {}

(***************************************************************************)
(* The validator (validator.py).  A ValidationWarning is its type, the     *)
(* tasks it names and its severity.                                        *)
(***************************************************************************)
\* Task.duration_minutes
duration_minutes(task) ==
    (get_end_time(task).hour * 60 + get_end_time(task).minute)
       - (get_start_time(task).hour * 60 + get_start_time(task).minute)

ValidationWarning(type, tasks, severity) ==
    [type |-> type, tasks |-> tasks, severity |-> severity]

\* _tasks_overlap
tasks_overlap(task1, task2) ==
    LET Mins(t) == t.hour * 60 + t.minute
    IN  ~(\/ Mins(get_end_time(task1)) <= Mins(get_start_time(task2))
          \/ Mins(get_end_time(task2)) <= Mins(get_start_time(task1)))

\* An overlap check that compares each task with the next one only
Mut_check_overlapping_tasks(schedule) ==
    LET InScanOrder(P) ==
          [k \in 1..Cardinality(P) |->
             ValidationWarning("overlap",
                               <<schedule.tasks[CHOOSE i \in P :
                                                  Cardinality({j \in P : j < i}) = k - 1],
                                 schedule.tasks[(CHOOSE i \in P :
                                                  Cardinality({j \in P : j < i}) = k - 1) + 1]>>,
                               "error")]
    IN  InScanOrder({i \in 1..(Len(schedule.tasks) - 1) :
                       tasks_overlap(schedule.tasks[i], schedule.tasks[i + 1])})

\* _check_overlapping_tasks: every task with every later task of the list,
\* the warnings in the order the two loops find them
check_overlapping_tasks(schedule) ==
    LET Earlier(p, q) == p[1] < q[1] \/ (p[1] = q[1] /\ p[2] < q[2])
        Warn(p) == ValidationWarning("overlap",
                                     <<schedule.tasks[p[1]], schedule.tasks[p[2]]>>,
                                     "error")
        InScanOrder(P) ==
          [k \in 1..Cardinality(P) |->
             Warn(CHOOSE p \in P : Cardinality({q \in P : Earlier(q, p)}) = k - 1)]
    IN  InScanOrder({p \in (DOMAIN schedule.tasks) \X (DOMAIN schedule.tasks) :
                       /\ p[1] < p[2]
                       /\ tasks_overlap(schedule.tasks[p[1]], schedule.tasks[p[2]])})

\* _calculate_gap
calculate_gap(task1, task2) ==
    (get_start_time(task2).hour * 60 + get_start_time(task2).minute)
       - (get_end_time(task1).hour * 60 + get_end_time(task1).minute)

\* A gap check that calls a gap of exactly min_gap_minutes short
Mut_check_gaps(schedule, min_gap_minutes, max_gap_minutes) ==
    LET Warn(i, gap_minutes) ==
          IF 0 < gap_minutes /\ gap_minutes <= min_gap_minutes
          THEN ValidationWarning("short_gap",
                                 <<schedule.tasks[i], schedule.tasks[i + 1]>>, "warning")
          ELSE IF gap_minutes > max_gap_minutes
          THEN ValidationWarning("large_gap",
                                 <<schedule.tasks[i], schedule.tasks[i + 1]>>, "warning")
          ELSE None
    IN  SelectSeq([i \in 1..(Len(schedule.tasks) - 1) |->
                     Warn(i, calculate_gap(schedule.tasks[i], schedule.tasks[i + 1]))],
                  LAMBDA w : w # None)

\* _check_gaps: each task with the next one of the list; if / elif, so at
\* most one warning for a pair
check_gaps(schedule, min_gap_minutes, max_gap_minutes) ==
    LET Warn(i, gap_minutes) ==
          IF 0 < gap_minutes /\ gap_minutes < min_gap_minutes
          THEN ValidationWarning("short_gap",
                                 <<schedule.tasks[i], schedule.tasks[i + 1]>>, "warning")
          ELSE IF gap_minutes > max_gap_minutes
          THEN ValidationWarning("large_gap",
                                 <<schedule.tasks[i], schedule.tasks[i + 1]>>, "warning")
          ELSE None
    IN  SelectSeq([i \in 1..(Len(schedule.tasks) - 1) |->
                     Warn(i, calculate_gap(schedule.tasks[i], schedule.tasks[i + 1]))],
                  LAMBDA w : w # None)

\* A duration check that also calls a task of exactly 5 minutes short
Mut_check_task_duration(schedule) ==
    LET Warn(task, duration) ==
          IF duration <= 5
          THEN ValidationWarning("short_duration", <<task>>, "warning")
          ELSE IF duration > 240
          THEN ValidationWarning("long_duration", <<task>>, "warning")
          ELSE None
    IN  SelectSeq([i \in DOMAIN schedule.tasks |->
                     Warn(schedule.tasks[i], duration_minutes(schedule.tasks[i]))],
                  LAMBDA w : w # None)

\* _check_task_duration
check_task_duration(schedule) ==
    LET Warn(task, duration) ==
          IF duration < 5
          THEN ValidationWarning("short_duration", <<task>>, "warning")
          ELSE IF duration > 240
          THEN ValidationWarning("long_duration", <<task>>, "warning")
          ELSE None
    IN  SelectSeq([i \in DOMAIN schedule.tasks |->
                     Warn(schedule.tasks[i], duration_minutes(schedule.tasks[i]))],
                  LAMBDA w : w # None)

\* validate_schedule
validate_schedule(schedule, warn_overlapping, warn_gaps, min_gap_minutes, max_gap_minutes) ==
    (IF warn_overlapping THEN check_overlapping_tasks(schedule) ELSE << >>)
       \o (IF warn_gaps THEN check_gaps(schedule, min_gap_minutes, max_gap_minutes)
           ELSE << >>)
       \o check_task_duration(schedule)

(***************************************************************************)
(* Statistics (statistics.py).  A percentage is kept in tenths of a        *)
(* percent, as the report prints it ("62.5%" is 625).                      *)
(***************************************************************************)
\* How a comparison of two floats can go when the numbers compared are
\* equal as exact numbers: the rounding of the sums and quotients that led
\* to them leaves the left one below, equal to, or above the right one
Roundings == {"below", "equal", "above"}

\* analyze_productivity_trends(reports_dir, days).  reports_dir is Absent
\* or a directory with its *.txt files, newest first; a file that cannot
\* be read as text is skipped; a text is a report, whose
\* "Completed: c (p%)" line gives p.  recent_avg and older_avg are floats:
\* where recent_avg and older_avg + 5 (or - 5) are equal as exact numbers,
\* rounding says which way the comparison of the floats goes.
analyze_productivity_trends(reports_dir, days, rounding) ==
    LET RECURSIVE Sum(_)
        Sum(q) == IF q = << >> THEN 0 ELSE Head(q) + Sum(Tail(q))
        Min2(a, b) == IF a < b THEN a ELSE b
        Parsed(f) == IF f.kind = "text" THEN << f.text.completion_pct >> ELSE << >>
        RECURSIVE Parse(_)
        Parse(files) == IF files = << >> THEN << >>
                        ELSE Parsed(Head(files)) \o Parse(Tail(files))
        Compare(recent, n, older, m) ==
          IF recent * m > (older + 50 * m) * n THEN "improving"
          ELSE IF recent * m < (older - 50 * m) * n THEN "declining"
          ELSE IF recent * m = (older + 50 * m) * n /\ rounding = "above" THEN "improving"
          ELSE IF recent * m = (older - 50 * m) * n /\ rounding = "below" THEN "declining"
          ELSE "stable"
        Trend(dc) ==
          IF Len(dc) >= 2
          THEN IF Len(dc) > 3
               THEN Compare(Sum(SubSeq(dc, 1, 3)), 3,
                            Sum(SubSeq(dc, 4, Len(dc))), Len(dc) - 3)
               ELSE "stable"
          ELSE "insufficient_data"
        Stats(dc) ==
          IF dc = << >> THEN [error |-> "Could not parse reports", days_analyzed |-> 0]
          ELSE [days_analyzed |-> Len(dc),
                average_completion |-> FormatFixed([num |-> Sum(dc), den |-> Len(dc)], 0),
                max_completion |-> CHOOSE x \in Range(dc) : \A y \in Range(dc) : y <= x,
                min_completion |-> CHOOSE x \in Range(dc) : \A y \in Range(dc) : x <= y,
                trend |-> Trend(dc),
                daily_completions |-> dc]
        Recent(files) ==
          IF files = << >> THEN [error |-> "No reports found", days_analyzed |-> 0]
          ELSE Stats(Parse(files))
    IN  IF ~Exists(reports_dir)
        THEN [error |-> "No reports directory found", days_analyzed |-> 0]
        ELSE Recent(SubSeq(reports_dir.files, 1, Min2(days, Len(reports_dir.files))))

(***************************************************************************)
(* The filesystem of Spec.                                                 *)
(***************************************************************************)
ConfigDir == "/home/.terminal-calendar"          \* StateManager.DEFAULT_CONFIG_DIR
StateFile == ConfigDir \o "/state.json"          \* config_dir / DEFAULT_STATE_FILE
ReportsDir == ConfigDir \o "/reports"            \* create_reports_dir
Cwd == "/cwd"                                    \* where relative paths resolve

\* report_path of save_report
ReportPath(date) == ReportsDir \o "/" \o isoformat(date) \o ".txt"

ExportFormats == {"ical", "csv", "json"}

\* export: the output file when --output is not given
DefaultExportPath(date, export_format) ==
    LET ext == CASE export_format = "ical" -> "ics"
                 [] export_format = "csv" -> "csv"
                 [] export_format = "json" -> "json"
                 [] OTHER -> "txt"
    IN  Cwd \o "/schedule-" \o isoformat(date) \o "." \o ext

\* The user's schedule files and the file the user names with --output
SchedA == "/plans/day.json"
SchedB == Cwd \o "/schedule-2024-03-16.json"
OutFile == Cwd \o "/out.json"
ScheduleFiles == {SchedA, SchedB}

Paths ==
    {StateFile, ReportsDir, SchedA, SchedB, OutFile}
        \cup {ReportPath(d) : d \in Dates}
        \cup {DefaultExportPath(d, x) : d \in Dates, x \in ExportFormats}

\* The two schedule files as the user wrote them (tasks in no particular order)
SchedADoc ==
    [date |-> isoformat(D1),
     tasks |-> << Task("t2", <<10, 0>>, <<11, 30>>, "medium"),
                  Task("t1", <<9, 0>>, <<10, 0>>, "high") >>]
SchedBDoc ==
    [date |-> isoformat(D2),
     tasks |-> << Task("t2", <<9, 0>>, <<9, 30>>, "low"),
                  Task("t3", <<9, 30>>, <<10, 0>>, "high") >>]

InitFs ==
    [p \in Paths |->
        CASE p = SchedA -> JsonFile(SchedADoc)
          [] p = SchedB -> JsonFile(SchedBDoc)
          [] OTHER -> Absent]

\* The file at a path; a path outside the model's filesystem does not exist
FileAt(F, p) == IF p \in Paths THEN F[p] ELSE Absent

\* The outcome of a command: the filesystem it leaves, its exit code and
\* which message it printed
Outcome(F, exit, msg) == [fs |-> F, exit |-> exit, msg |-> msg]

\* What a command's "except StateManagerError / ScheduleParseError /
\* Exception" clauses print for an exception; every one of them exits 1
HandlerMsg(exc) ==
    IF IsInstance(exc, "StateManagerError") THEN "state_error"
    ELSE IF IsInstance(exc, "ScheduleParseError") THEN "schedule_error"
    ELSE "unexpected_error"

(***************************************************************************)
(* Commands (cli.py).  Each is one process run to completion.              *)
(***************************************************************************)
\* A load that keeps the completions of the state on disk when that state
\* is of the file being loaded
Mut_load(F, schedule_file, clock, io) ==
    LET Saved(w) ==
          IF w.exc # NoExc
          THEN Outcome([F EXCEPT ![StateFile] = w.file], 1, HandlerMsg(w.exc))
          ELSE Outcome([F EXCEPT ![StateFile] = w.file], 0, "loaded")
        Fresh(s) == NewAppState(schedule_file, s.value.date, clock)
        Kept(s, l) ==
          IF l.exc = NoExc /\ l.value # None /\ l.value.schedule_file = schedule_file
          THEN [Fresh(s) EXCEPT !.completed_tasks = l.value.completed_tasks]
          ELSE Fresh(s)
        Parsed(s) ==
          IF s.exc # NoExc THEN Outcome(F, 1, HandlerMsg(s.exc))
          ELSE Saved(save_state(F[StateFile], Kept(s, load_state(F[StateFile], clock)), io))
    IN  Parsed(load_schedule(FileAt(F, schedule_file)))

\* tcal load SCHEDULE_FILE
load(F, schedule_file, clock, io) ==
    LET Saved(w) ==
          IF w.exc # NoExc
          THEN Outcome([F EXCEPT ![StateFile] = w.file], 1, HandlerMsg(w.exc))
          ELSE Outcome([F EXCEPT ![StateFile] = w.file], 0, "loaded")
        Parsed(s) ==
          IF s.exc # NoExc THEN Outcome(F, 1, HandlerMsg(s.exc))
          ELSE Saved(save_state(F[StateFile],
                                NewAppState(schedule_file, s.value.date, clock), io))
    IN  Parsed(load_schedule(FileAt(F, schedule_file)))

\* tcal complete TASK_ID [--undo]
complete(F, task_id, undo, clock, io) ==
    LET Shown(F2, again) ==
          IF again.exc # NoExc THEN Outcome(F2, 1, HandlerMsg(again.exc))
          ELSE Outcome(F2, 0, IF undo THEN "marked_incomplete" ELSE "marked_complete")
        Marked(m) ==
          IF m.exc # NoExc
          THEN Outcome([F EXCEPT ![StateFile] = m.file], 1, HandlerMsg(m.exc))
          ELSE Shown([F EXCEPT ![StateFile] = m.file], load_state(m.file, clock))
        Parsed(s) ==
          IF s.exc # NoExc THEN Outcome(F, 1, HandlerMsg(s.exc))
          ELSE IF get_task_by_id(s.value, task_id) = None
          THEN Outcome(F, 1, "task_not_found")
          ELSE Marked(IF undo
                      THEN mark_task_incomplete(F[StateFile], task_id, clock, io)
                      ELSE mark_task_complete(F[StateFile], task_id, clock, io))
        Loaded(l) ==
          IF l.exc # NoExc THEN Outcome(F, 1, HandlerMsg(l.exc))
          ELSE IF l.value = None THEN Outcome(F, 1, "no_schedule_loaded")
          ELSE Parsed(load_schedule(FileAt(F, l.value.schedule_file)))
    IN  Loaded(load_state(F[StateFile], clock))

\* tcal note TASK_ID NOTE_CONTENT: catches StateManagerError and
\* ScheduleParseError only; anything else leaves as a traceback (exit 1)
note(F, task_id, note_content, clock, io) ==
    LET NoteMsg(exc) == IF Caught(exc, {"StateManagerError", "ScheduleParseError"})
                        THEN HandlerMsg(exc) ELSE "traceback"
        Saved(w) ==
          IF w.exc # NoExc
          THEN Outcome([F EXCEPT ![StateFile] = w.file], 1, NoteMsg(w.exc))
          ELSE Outcome([F EXCEPT ![StateFile] = w.file], 0, "note_added")
        Parsed(state, s) ==
          IF s.exc # NoExc THEN Outcome(F, 1, NoteMsg(s.exc))
          ELSE IF get_task_by_id(s.value, task_id) = None
          THEN Outcome(F, 1, "task_not_found")
          ELSE Saved(save_state(F[StateFile],
                                add_note(state, task_id, note_content, clock), io))
        Loaded(l) ==
          IF l.exc # NoExc THEN Outcome(F, 1, NoteMsg(l.exc))
          ELSE IF l.value = None THEN Outcome(F, 1, "no_schedule_loaded")
          ELSE Parsed(l.value, load_schedule(FileAt(F, l.value.schedule_file)))
    IN  Loaded(load_state(F[StateFile], clock))

\* tcal clear: asks for confirmation, then clear_state
clear(F, confirmed, unlink_ok) ==
    LET Cleared(c) ==
          IF c.exc # NoExc THEN Outcome(F, 1, HandlerMsg(c.exc))
          ELSE Outcome([F EXCEPT ![StateFile] = c.file], 0, "cleared")
    IN  IF ~state_exists(F[StateFile]) THEN Outcome(F, 0, "no_state_to_clear")
        ELSE IF ~confirmed THEN Outcome(F, 0, "cancelled")
        ELSE Cleared(clear_state(F[StateFile], unlink_ok))

\* task.description[:60] (report_generator.py)
DescriptionCut == 60

\* A PRIORITY BREAKDOWN that counts a completed task under every priority
Mut_priority_breakdown(schedule, state) ==
    LET Stats(priority) ==
          [priority |-> priority,
           total |-> Len(SelectSeq(schedule.tasks, LAMBDA task : task.priority = priority)),
           completed |-> Len(SelectSeq(schedule.tasks,
                             LAMBDA task : task.id \in state.completed_tasks))]
        Shown(stats) ==
          [priority |-> stats.priority, completed |-> stats.completed,
           total |-> stats.total,
           pct |-> FormatFixed([num |-> stats.completed * 100, den |-> stats.total], 0)]
        Breakdown(all) == [i \in DOMAIN all |-> Shown(all[i])]
    IN  Breakdown(SelectSeq(<<Stats("high"), Stats("medium"), Stats("low")>>,
                            LAMBDA stats : stats.total > 0))

\* generate_report, PRIORITY BREAKDOWN: priority_stats counted over the
\* schedule's tasks, then one line "PRIORITY  c/n completed (p%)" for each
\* of high, medium, low whose total is above 0
priority_breakdown(schedule, state) ==
    LET Stats(priority) ==
          [priority |-> priority,
           total |-> Len(SelectSeq(schedule.tasks, LAMBDA task : task.priority = priority)),
           completed |-> Len(SelectSeq(schedule.tasks,
                             LAMBDA task : /\ task.priority = priority
                                           /\ task.id \in state.completed_tasks))]
        Shown(stats) ==
          [priority |-> stats.priority, completed |-> stats.completed,
           total |-> stats.total,
           pct |-> FormatFixed([num |-> stats.completed * 100, den |-> stats.total], 0)]
        Breakdown(all) == [i \in DOMAIN all |-> Shown(all[i])]
    IN  Breakdown(SelectSeq(<<Stats("high"), Stats("medium"), Stats("low")>>,
                            LAMBDA stats : stats.total > 0))

\* A band that needs more than 80, 60, 40 percent
Mut_completion_band(completion_pct) ==
    IF completion_pct.num > 80 * completion_pct.den THEN "excellent"
    ELSE IF completion_pct.num > 60 * completion_pct.den THEN "good"
    ELSE IF completion_pct.num > 40 * completion_pct.den THEN "fair"
    ELSE "challenging"

\* generate_report, the first insight: chosen by completion_pct
completion_band(completion_pct) ==
    IF completion_pct.num >= 80 * completion_pct.den THEN "excellent"
    ELSE IF completion_pct.num >= 60 * completion_pct.den THEN "good"
    ELSE IF completion_pct.num >= 40 * completion_pct.den THEN "fair"
    ELSE "challenging"

\* Insights that praise a schedule without a high-priority task
Mut_high_priority_insights(schedule, state) ==
    LET High(task) == task.priority = "high"
        Warned(high_priority_incomplete) ==
          IF high_priority_incomplete # << >>
          THEN << [line |-> "high_priority_incomplete",
                   count |-> Len(high_priority_incomplete)] >>
          ELSE << >>
        Praised(high_priority_completed) ==
          IF high_priority_completed
          THEN << [line |-> "all_high_priority_completed"] >>
          ELSE << >>
    IN  Warned(SelectSeq(schedule.tasks,
                         LAMBDA task : task.id \notin state.completed_tasks /\ High(task)))
        \o Praised(\A i \in DOMAIN schedule.tasks :
                      High(schedule.tasks[i]) => schedule.tasks[i].id \in state.completed_tasks)

\* generate_report, the insights about high-priority tasks: the warning
\* with the number of incomplete ones, and the line for all completed
high_priority_insights(schedule, state) ==
    LET High(task) == task.priority = "high"
        Warned(high_priority_incomplete) ==
          IF high_priority_incomplete # << >>
          THEN << [line |-> "high_priority_incomplete",
                   count |-> Len(high_priority_incomplete)] >>
          ELSE << >>
        Praised(high_priority_completed, high_total) ==
          IF high_priority_completed /\ high_total > 0
          THEN << [line |-> "all_high_priority_completed"] >>
          ELSE << >>
    IN  Warned(SelectSeq(schedule.tasks,
                         LAMBDA task : task.id \notin state.completed_tasks /\ High(task)))
        \o Praised(\A i \in DOMAIN schedule.tasks :
                      High(schedule.tasks[i]) => schedule.tasks[i].id \in state.completed_tasks,
                   Len(SelectSeq(schedule.tasks, High)))

\* A report whose last line holds no time
Mut_generate_report(schedule, state, clock) ==
    LET Completed(task) == task.id \in state.completed_tasks
        Incomplete(task) == task.id \notin state.completed_tasks
        DescriptionLine(description) ==
          IF description = "" THEN None
          ELSE SubSeq(description, 1,
                      IF Len(description) < DescriptionCut THEN Len(description)
                      ELSE DescriptionCut) \o "..."
        Lines(list) == [i \in DOMAIN list |-> DescriptionLine(list[i].description)]
        Text(total_tasks, completed_tasks, completed_task_list, incomplete_task_list) ==
          [date |-> schedule.date,
           total_tasks |-> total_tasks,
           completed_tasks |-> completed_tasks,
           incomplete_tasks |-> total_tasks - completed_tasks,
           completion_pct |->
               FormatFixed(get_completion_percentage(state, total_tasks), 1),
           priority_lines |-> priority_breakdown(schedule, state),
           completed_task_list |-> completed_task_list,
           completed_lines |-> Lines(completed_task_list),
           incomplete_task_list |-> incomplete_task_list,
           incomplete_lines |-> Lines(incomplete_task_list),
           insights |->
               << [line |-> completion_band(get_completion_percentage(state, total_tasks))] >>
               \o high_priority_insights(schedule, state),
           generated |-> 0]
    IN  Text(Len(schedule.tasks), Cardinality(state.completed_tasks),
             SelectSeq(schedule.tasks, Completed),
             SelectSeq(schedule.tasks, Incomplete))

\* generate_report (report_generator.py) called when the wall clock reads
\* clock.  The text is kept as its parts: the date of the header, the
\* counts and the figure of SUMMARY, the lines of PRIORITY BREAKDOWN, the
\* tasks listed under COMPLETED TASKS and under INCOMPLETE TASKS with the
\* description line of each (None when the task has none), the lines of
\* INSIGHTS & RECOMMENDATIONS and the time in the "Report generated" line.
generate_report(schedule, state, clock) ==
    LET Completed(task) == task.id \in state.completed_tasks
        Incomplete(task) == task.id \notin state.completed_tasks
        DescriptionLine(description) ==
          IF description = "" THEN None
          ELSE SubSeq(description, 1,
                      IF Len(description) < DescriptionCut THEN Len(description)
                      ELSE DescriptionCut) \o "..."
        Lines(list) == [i \in DOMAIN list |-> DescriptionLine(list[i].description)]
        Text(total_tasks, completed_tasks, completed_task_list, incomplete_task_list) ==
          [date |-> schedule.date,
           total_tasks |-> total_tasks,
           completed_tasks |-> completed_tasks,
           incomplete_tasks |-> total_tasks - completed_tasks,
           completion_pct |->
               FormatFixed(get_completion_percentage(state, total_tasks), 1),
           priority_lines |-> priority_breakdown(schedule, state),
           completed_task_list |-> completed_task_list,
           completed_lines |-> Lines(completed_task_list),
           incomplete_task_list |-> incomplete_task_list,
           incomplete_lines |-> Lines(incomplete_task_list),
           insights |->
               << [line |-> completion_band(get_completion_percentage(state, total_tasks))] >>
               \o high_priority_insights(schedule, state),
           generated |-> clock]
    IN  Text(Len(schedule.tasks), Cardinality(state.completed_tasks),
             SelectSeq(schedule.tasks, Completed),
             SelectSeq(schedule.tasks, Incomplete))

\* A directory
Directory == [kind |-> "dir"]

\* A save_report that leaves a report that is already there as it is
Mut_save_report(F, schedule, state, clock, io) ==
    LET Written(report_path, w) ==
          [exc |-> w.exc, path |-> report_path,
           fs |-> [F EXCEPT ![ReportsDir] = Directory,
                            ![report_path] = IF Exists(@) THEN @ ELSE w.file]]
    IN  Written(ReportPath(schedule.date),
                WriteFile(F[ReportPath(schedule.date)],
                          TextFile(generate_report(schedule, state, clock)), io))

\* save_report (report_generator.py): the directory made, the file written,
\* and how the write went
save_report(F, schedule, state, clock, io) ==
    LET Written(report_path, w) ==
          [exc |-> w.exc, path |-> report_path,
           fs |-> [F EXCEPT ![ReportsDir] = Directory, ![report_path] = w.file]]
    IN  Written(ReportPath(schedule.date),
                WriteFile(F[ReportPath(schedule.date)],
                          TextFile(generate_report(schedule, state, clock)), io))

\* tcal report [--date D] [--save/--no-save]; date is None when not given
report(F, date, save, clock, io) ==
    LET Saved(r) ==
          IF r.exc # NoExc THEN Outcome(r.fs, 1, HandlerMsg(r.exc))
          ELSE Outcome(r.fs, 0, "report_saved")
        Parsed(state, s) ==
          IF s.exc # NoExc THEN Outcome(F, 1, HandlerMsg(s.exc))
          ELSE IF date # None /\ s.value.date # date
          THEN Outcome(F, 1, "date_mismatch")
          ELSE IF ~save THEN Outcome(F, 0, "report_shown")
          ELSE Saved(save_report(F, s.value, state, clock, io))
        Loaded(l) ==
          IF l.exc # NoExc THEN Outcome(F, 1, HandlerMsg(l.exc))
          ELSE IF l.value = None THEN Outcome(F, 1, "no_schedule_loaded")
          ELSE Parsed(l.value, load_schedule(FileAt(F, l.value.schedule_file)))
    IN  Loaded(load_state(F[StateFile], clock))

\* What info and status print of the completion: "Completed: c/n (p%)"
Completion(exit, msg, completed, total, pct) ==
    [exit |-> exit, msg |-> msg, completed |-> completed, total |-> total, pct |-> pct]

\* tcal info
info(F, clock) ==
    LET Parsed(state, s) ==
          IF s.exc # NoExc THEN Completion(1, HandlerMsg(s.exc), None, None, None)
          ELSE Completion(0, "info", Cardinality(state.completed_tasks),
                          Len(s.value.tasks),
                          FormatFixed(get_completion_percentage(state, Len(s.value.tasks)), 0))
        Loaded(l) ==
          IF l.exc # NoExc THEN Completion(1, HandlerMsg(l.exc), None, None, None)
          ELSE IF l.value = None
          THEN Completion(1, "no_schedule_loaded", None, None, None)
          ELSE Parsed(l.value, load_schedule(FileAt(F, l.value.schedule_file)))
    IN  Loaded(load_state(F[StateFile], clock))

\* tcal status
status(F, clock) ==
    LET Parsed(state, s) ==
          IF s.exc # NoExc THEN Completion(1, HandlerMsg(s.exc), None, None, None)
          ELSE Completion(0, "status", Cardinality(state.completed_tasks),
                          Len(s.value.tasks),
                          FormatFixed(get_completion_percentage(state, Len(s.value.tasks)), 0))
        Loaded(l) ==
          IF l.exc # NoExc THEN Completion(1, HandlerMsg(l.exc), None, None, None)
          ELSE IF l.value = None
          THEN Completion(1, "no_schedule_loaded", None, None, None)
          ELSE Parsed(l.value, load_schedule(FileAt(F, l.value.schedule_file)))
    IN  Loaded(load_state(F[StateFile], clock))

\* export_to_json (export.py): the document written
ExportJsonDoc(schedule, state) ==
    [date |-> isoformat(schedule.date),
     tasks |-> [i \in DOMAIN schedule.tasks |->
                  LET t == schedule.tasks[i]
                  IN  [id |-> t.id, title |-> t.title,
                       start_time |-> t.start_time, end_time |-> t.end_time,
                       description |-> t.description, priority |-> t.priority,
                       completed |-> is_complete(state, t.id),
                       notes |-> get_notes(state, t.id)]]]

\* export_to_ical / export_to_csv / export_to_json: what the output file holds
ExportContent(schedule, state, export_format) ==
    CASE export_format = "ical" -> TextFile("ical")
      [] export_format = "csv" -> TextFile("csv")
      [] OTHER -> JsonFile(ExportJsonDoc(schedule, state))

\* tcal export [--format F] [--output PATH]; output_file is None when not given
export(F, export_format, output_file, clock, io) ==
    LET Written(out, w) ==
          IF w.exc # NoExc
          THEN Outcome([F EXCEPT ![out] = w.file], 1, HandlerMsg(w.exc))
          ELSE Outcome([F EXCEPT ![out] = w.file], 0, "exported")
        Export(out, content) == Written(out, WriteFile(F[out], content, io))
        Parsed(state, s) ==
          IF s.exc # NoExc THEN Outcome(F, 1, HandlerMsg(s.exc))
          ELSE Export(IF output_file = None
                      THEN DefaultExportPath(s.value.date, export_format)
                      ELSE output_file.path,
                      ExportContent(s.value, state, export_format))
        Loaded(l) ==
          IF l.exc # NoExc THEN Outcome(F, 1, HandlerMsg(l.exc))
          ELSE IF l.value = None THEN Outcome(F, 1, "no_schedule_loaded")
          ELSE Parsed(l.value, load_schedule(FileAt(F, l.value.schedule_file)))
    IN  Loaded(load_state(F[StateFile], clock))

\* save_schedule (schedule_parser.py)
save_schedule(F, schedule, file_path, io) ==
    LET Written(w) ==
          [exc |-> IF Caught(w.exc, {"OSError"}) THEN "ScheduleParseError" ELSE w.exc,
           fs |-> [F EXCEPT ![file_path] = w.file]]
    IN  Written(WriteFile(F[file_path], JsonFile(schedule_model_dump(schedule)), io))

(***************************************************************************)
(* The display session (calendar_app.py).  A session is closed, or holds   *)
(* the --file option, the loaded schedule and the task list as last        *)
(* rendered: one item per task with the completion flag shown.             *)
(***************************************************************************)
Closed == [open |-> FALSE, schedule_file |-> "", schedule |-> None, items |-> << >>]

\* TaskListItem as far as the toggle reads it
TaskListItem(task, is_completed) == [task_id |-> task.id, task_is_completed |-> is_completed]

\* CalendarApp._load_schedule
app_load_schedule(F, schedule_file, clock) ==
    LET Loaded(l) ==
          IF l.exc # NoExc THEN l
          ELSE IF l.value = None THEN [exc |-> "StateManagerError", value |-> None]
          ELSE load_schedule(FileAt(F, l.value.schedule_file))
    IN  IF schedule_file # ""
        THEN load_schedule(FileAt(F, schedule_file))
        ELSE Loaded(load_state(F[StateFile], clock))

\* CalendarApp._populate_task_list: the list is emptied, then filled from
\* the state on disk; when load_state raises it stays empty
populate_task_list(F, schedule, clock) ==
    LET Items(completed_tasks) ==
          [i \in DOMAIN schedule.tasks |->
             TaskListItem(schedule.tasks[i], schedule.tasks[i].id \in completed_tasks)]
        Loaded(l) ==
          IF l.exc # NoExc THEN [exc |-> l.exc, items |-> << >>]
          ELSE [exc |-> NoExc,
                items |-> Items(IF l.value = None THEN {} ELSE l.value.completed_tasks)]
    IN  Loaded(load_state(F[StateFile], clock))

\* DayProgressBar.render: the cells filled of the 40, and the percentage
\* printed with one decimal
DayProgressBar(completed, total) ==
    [completed |-> completed,
     total |-> total,
     filled |-> IF total > 0 THEN (completed * 40) \div total ELSE 0,
     percentage |-> FormatFixed(IF total = 0 THEN [num |-> 0, den |-> 1]
                                ELSE [num |-> completed * 100, den |-> total], 1)]

\* CalendarApp._render_progress of an open session: the counts come from
\* the state on disk and from the session's schedule
render_progress(sess, F, clock) ==
    LET Loaded(l) ==
          IF l.exc # NoExc THEN [exc |-> l.exc, bar |-> None]
          ELSE [exc |-> NoExc,
                bar |-> DayProgressBar(IF l.value = None THEN 0
                                       ELSE Cardinality(l.value.completed_tasks),
                                       Len(sess.schedule.tasks))]
    IN  Loaded(load_state(F[StateFile], clock))

\* What a session event leaves: the session, the filesystem, what it reported
Event(sess, F, msg) == [session |-> sess, fs |-> F, msg |-> msg]

\* tcal view [--file F]: cli.view, then CalendarApp.on_mount.  on_mount
\* catches ScheduleParseError and StateManagerError around _load_schedule
\* only; any exception ends the session.
view(F, schedule_file, clock) ==
    LET Populated(schedule, p) ==
          IF p.exc # NoExc THEN Event(Closed, F, "crashed")
          ELSE Event([open |-> TRUE, schedule_file |-> schedule_file,
                      schedule |-> schedule, items |-> p.items],
                     F, "mounted")
        Loaded(s) ==
          IF s.exc # NoExc THEN Event(Closed, F, "error_loading_schedule")
          ELSE Populated(s.value, populate_task_list(F, s.value, clock))
    IN  IF schedule_file = "" /\ ~state_exists(F[StateFile])
        THEN Event(Closed, F, "no_schedule_loaded")
        ELSE Loaded(app_load_schedule(F, schedule_file, clock))

\* CalendarApp._update_current_time, run by the timer: nothing catches
update_current_time(sess, F, clock) ==
    LET Populated(p) ==
          IF p.exc # NoExc THEN Event(Closed, F, "crashed")
          ELSE Event([sess EXCEPT !.items = p.items], F, "rendered")
    IN  Populated(populate_task_list(F, sess.schedule, clock))

\* CalendarApp.action_refresh
action_refresh(sess, F, clock) ==
    LET Handlers == {"ScheduleParseError", "StateManagerError"}
        Populated(schedule, p) ==
          LET sess2 == [sess EXCEPT !.schedule = schedule, !.items = p.items]
          IN  IF p.exc = NoExc THEN Event(sess2, F, "refreshed")
              ELSE IF Caught(p.exc, Handlers) THEN Event(sess2, F, "refresh_error")
              ELSE Event(Closed, F, "crashed")
        Loaded(s) ==
          IF s.exc # NoExc
          THEN IF Caught(s.exc, Handlers)
               THEN Event(sess, F, "refresh_error")
               ELSE Event(Closed, F, "crashed")
          ELSE Populated(s.value, populate_task_list(F, s.value, clock))
    IN  Loaded(app_load_schedule(F, sess.schedule_file, clock))

\* A toggle that saves the completions cached at the last render, with the
\* selected one flipped, instead of changing the state on disk
Mut_action_toggle_complete(sess, F, index, clock, io) ==
    IF index = 0 THEN Event(sess, F, "no_task_selected")
    ELSE
      LET selected_item == sess.items[index]
          shown == {sess.items[i].task_id : i \in {j \in DOMAIN sess.items :
                                                     sess.items[j].task_is_completed}}
          cached == IF selected_item.task_is_completed
                    THEN shown \ {selected_item.task_id}
                    ELSE shown \cup {selected_item.task_id}
          l == load_state(F[StateFile], clock)
          m == IF l.exc # NoExc \/ l.value = None
               THEN [exc |-> "StateManagerError", file |-> F[StateFile]]
               ELSE save_state(F[StateFile],
                               [l.value EXCEPT !.completed_tasks = cached,
                                               !.last_updated = clock], io)
          F2 == [F EXCEPT ![StateFile] = m.file]
          p == populate_task_list(F2, sess.schedule, clock)
      IN  IF m.exc # NoExc THEN Event(sess, F2, "error_updating_task")
          ELSE IF p.exc = NoExc THEN Event([sess EXCEPT !.items = p.items], F2, "toggled")
          ELSE Event([sess EXCEPT !.items = << >>], F2, "error_updating_task")

\* A toggle that flips the status the task has on disk at that moment
Mut_toggle_disk_status(sess, F, index, clock, io) ==
    LET Populated(F2, p) ==
          IF p.exc = NoExc
          THEN Event([sess EXCEPT !.items = p.items], F2, "toggled")
          ELSE IF Caught(p.exc, {"StateManagerError"})
          THEN Event([sess EXCEPT !.items = << >>], F2, "error_updating_task")
          ELSE Event(Closed, F2, "crashed")
        Marked(F2, exc) ==
          IF exc # NoExc
          THEN IF Caught(exc, {"StateManagerError"})
               THEN Event(sess, F2, "error_updating_task")
               ELSE Event(Closed, F2, "crashed")
          ELSE Populated(F2, populate_task_list(F2, sess.schedule, clock))
        Mark(m) == Marked([F EXCEPT ![StateFile] = m.file], m.exc)
        Toggle(selected_item, l) ==
          Mark(IF l.exc = NoExc /\ l.value # None
                  /\ selected_item.task_id \in l.value.completed_tasks
               THEN mark_task_incomplete(F[StateFile], selected_item.task_id, clock, io)
               ELSE mark_task_complete(F[StateFile], selected_item.task_id, clock, io))
    IN  IF index = 0 THEN Event(sess, F, "no_task_selected")
        ELSE Toggle(sess.items[index], load_state(F[StateFile], clock))

\* CalendarApp.action_toggle_complete on the item at index (0 when the
\* list has no highlighted item)
action_toggle_complete(sess, F, index, clock, io) ==
    LET Populated(F2, p) ==
          IF p.exc = NoExc
          THEN Event([sess EXCEPT !.items = p.items], F2, "toggled")
          ELSE IF Caught(p.exc, {"StateManagerError"})
          THEN Event([sess EXCEPT !.items = << >>], F2, "error_updating_task")
          ELSE Event(Closed, F2, "crashed")
        Marked(F2, exc) ==
          IF exc # NoExc
          THEN IF Caught(exc, {"StateManagerError"})
               THEN Event(sess, F2, "error_updating_task")
               ELSE Event(Closed, F2, "crashed")
          ELSE Populated(F2, populate_task_list(F2, sess.schedule, clock))
        Mark(m) == Marked([F EXCEPT ![StateFile] = m.file], m.exc)
        Toggle(selected_item) ==
          Mark(IF selected_item.task_is_completed
               THEN mark_task_incomplete(F[StateFile], selected_item.task_id, clock, io)
               ELSE mark_task_complete(F[StateFile], selected_item.task_id, clock, io))
    IN  IF index = 0 THEN Event(sess, F, "no_task_selected")
        ELSE Toggle(sess.items[index])

(***************************************************************************)
(* Spec: one operation at a time on the filesystem.                        *)
(***************************************************************************)
Record(op, task, exit, msg, ret) ==
    [op |-> op, task |-> task, exit |-> exit, msg |-> msg, ret |-> ret,
     before |-> fs, view |-> session]

NoteContents == {"n"}

\* The notes the state file holds, 0 when it holds no readable state
NotesOnDisk(F) ==
    LET l == load_state(F[StateFile], 0)
    IN  IF l.exc # NoExc \/ l.value = None THEN 0
        ELSE Cardinality(DOMAIN l.value.task_notes)

\* What a user or a test can leave in the state file by hand
ForeignContents ==
    {TextFile("{invalid json}"), JsonFile([invalid |-> "data"]), BinaryFile, LockedFile}

Init ==
    /\ fs = InitFs
    /\ now = 0
    /\ session = Closed
    /\ last = [op |-> "init", task |-> "", exit |-> 0, msg |-> "", ret |-> None,
               before |-> InitFs, view |-> Closed]
    /\ cfile = Absent
    /\ procs = << >>
    /\ hist = << >>
    /\ sinput = << >>
    /\ sresult = None

\* One operation: it runs at the next clock reading and leaves a
\* filesystem, a session and a record of what it did
Step(op, task, exit, msg, ret, F, sess) ==
    /\ now < MaxClock
    /\ now' = now + 1
    /\ fs' = F
    /\ session' = sess
    /\ last' = Record(op, task, exit, msg, ret)
    /\ UNCHANGED <<concVars, schedVars>>

\* StateManager.load_state called directly
ApiLoadState ==
    \E l \in {load_state(fs[StateFile], now + 1)} :
        Step("load_state", "", 0, l.exc, l.value, fs, session)

\* StateManager.mark_task_complete called directly, with any task id
ApiMarkComplete ==
    \E t \in TaskIds, io \in IoOutcomes :
       \E m \in {mark_task_complete(fs[StateFile], t, now + 1, io)} :
           Step("mark_task_complete", t, 0, m.exc, None,
                [fs EXCEPT ![StateFile] = m.file], session)

\* StateManager.mark_task_incomplete called directly, with any task id
ApiMarkIncomplete ==
    \E t \in TaskIds, io \in IoOutcomes :
       \E m \in {mark_task_incomplete(fs[StateFile], t, now + 1, io)} :
           Step("mark_task_incomplete", t, 0, m.exc, None,
                [fs EXCEPT ![StateFile] = m.file], session)

\* StateManager.clear_state called directly
ApiClearState ==
    \E unlink_ok \in BOOLEAN :
       \E c \in {clear_state(fs[StateFile], unlink_ok)} :
           Step("clear_state", "", 0, c.exc, None,
                [fs EXCEPT ![StateFile] = c.file], session)

CmdLoad ==
    \E f \in ScheduleFiles, io \in IoOutcomes :
       \E o \in {load(fs, f, now + 1, io)} :
           Step("load", "", o.exit, o.msg, None, o.fs, session)

CmdComplete ==
    \E t \in TaskIds, undo \in BOOLEAN, io \in IoOutcomes :
       \E o \in {complete(fs, t, undo, now + 1, io)} :
           Step(IF undo THEN "complete_undo" ELSE "complete",
                t, o.exit, o.msg, None, o.fs, session)

CmdNote ==
    /\ NotesOnDisk(fs) < MaxNotes
    /\ \E t \in TaskIds, c \in NoteContents, io \in IoOutcomes :
         \E o \in {note(fs, t, c, now + 1, io)} :
             Step("note", t, o.exit, o.msg, None, o.fs, session)

CmdClear ==
    \E confirmed \in BOOLEAN, unlink_ok \in BOOLEAN :
       \E o \in {clear(fs, confirmed, unlink_ok)} :
           Step("clear", "", o.exit, o.msg, None, o.fs, session)

CmdReport ==
    \E d \in Dates \cup {None}, save \in BOOLEAN, io \in IoOutcomes :
       \E o \in {report(fs, d, save, now + 1, io)} :
           Step("report", "", o.exit, o.msg, None, o.fs, session)

\* --output names the user's own file or, by mistake or not, a schedule file
CmdExport ==
    \E x \in ExportFormats, out \in {None, [path |-> OutFile], [path |-> SchedA]},
       io \in IoOutcomes :
       \E o \in {export(fs, x, out, now + 1, io)} :
           Step("export", "", o.exit, o.msg, None, o.fs, session)

\* save_schedule called directly: a schedule read from one file is saved to another
ApiSaveSchedule ==
    \E src \in ScheduleFiles, dst \in ScheduleFiles, io \in IoOutcomes :
       \E s \in {load_schedule(fs[src])} :
           /\ s.exc = NoExc
           /\ \E w \in {save_schedule(fs, s.value, dst, io)} :
                  Step("save_schedule", "", 0, w.exc, None, w.fs, session)

\* Someone edits or replaces the state file by hand
ForeignWrite ==
    \E c \in ForeignContents :
       Step("foreign_write", "", 0, "", None, [fs EXCEPT ![StateFile] = c], session)

ViewOpen ==
    /\ ~session.open
    /\ \E f \in {""} \cup ScheduleFiles :
         \E e \in {view(fs, f, now + 1)} :
             Step("view", "", 0, e.msg, None, e.fs, e.session)

ViewTick ==
    /\ session.open
    /\ \E e \in {update_current_time(session, fs, now + 1)} :
           Step("tick", "", 0, e.msg, None, e.fs, e.session)

ViewRefresh ==
    /\ session.open
    /\ \E e \in {action_refresh(session, fs, now + 1)} :
           Step("refresh", "", 0, e.msg, None, e.fs, e.session)

ViewToggle ==
    /\ session.open
    /\ \E i \in (IF session.items = << >> THEN {0} ELSE DOMAIN session.items),
          io \in IoOutcomes :
         \E e \in {action_toggle_complete(session, fs, i, now + 1, io)} :
             Step("toggle", IF i = 0 THEN "" ELSE session.items[i].task_id,
                  0, e.msg, None, e.fs, e.session)

ViewQuit ==
    /\ session.open
    /\ Step("quit", "", 0, "", None, fs, Closed)

\* The state persister and the commands that change the state file
Next ==
    \/ ApiLoadState
    \/ ApiMarkComplete
    \/ ApiMarkIncomplete
    \/ ApiClearState
    \/ CmdLoad
    \/ CmdComplete
    \/ CmdNote
    \/ CmdClear
    \/ ForeignWrite

Spec == Init /\ [][Next]_vars

\* A display session, with commands run by other processes meanwhile
NextView ==
    \/ CmdLoad
    \/ CmdComplete
    \/ CmdNote
    \/ ViewOpen
    \/ ViewTick
    \/ ViewRefresh
    \/ ViewToggle
    \/ ViewQuit

SpecView == Init /\ [][NextView]_vars

\* The commands and calls that write files other than the state file
NextFiles ==
    \/ CmdLoad
    \/ CmdComplete
    \/ CmdReport
    \/ CmdExport
    \/ ApiSaveSchedule

SpecFiles == Init /\ [][NextFiles]_vars

\* save_report called directly, with the schedule of either file and a
\* state holding no completion, one, or two of which one is of another schedule
ApiSaveReport ==
    \E f \in ScheduleFiles, c \in {{}, {"t2"}, {"t1", "t3"}}, io \in IoOutcomes :
       \E s \in {load_schedule(fs[f])} :
          /\ s.exc = NoExc
          /\ \E state \in {[NewAppState(f, s.value.date, 0) EXCEPT !.completed_tasks = c]} :
               \E w \in {save_report(fs, s.value, state, now + 1, io)} :
                  Step("save_report", "", 0, w.exc,
                       [path |-> w.path, schedule |-> s.value, state |-> state],
                       w.fs, session)

\* Reports saved one after another
NextReports == ApiSaveReport

SpecReports == Init /\ [][NextReports]_vars

(***************************************************************************)
(* SpecConc: two processes, each running one read-modify-write on the      *)
(* state file (mark_task_complete, mark_task_incomplete, or the note       *)
(* command's load_state / add_note / save_state), with no lock.  A process *)
(* loads, changes its copy, opens the file for writing (which empties it)  *)
(* and writes.                                                             *)
(***************************************************************************)
Procs == {"p1", "p2"}
ConcTasks == {"t1", "t2"}
Cmds == [kind : {"complete", "undo", "note"}, task : ConcTasks]

\* The change a command makes to the state it loaded
Mutate(cmd, state, clock) ==
    CASE cmd.kind = "complete" -> mark_complete(state, cmd.task, clock)
      [] cmd.kind = "undo" -> mark_incomplete(state, cmd.task, clock)
      [] OTHER -> add_note(state, cmd.task, "n", clock)

InitConc ==
    /\ \E done \in SUBSET ConcTasks, present \in BOOLEAN :
         LET s0 == [NewAppState(SchedA, D1, 0) EXCEPT !.completed_tasks = done]
         IN  /\ cfile = IF present THEN JsonFile(model_dump(s0)) ELSE Absent
             /\ hist = [init |-> cfile, order |-> << >>, overlap |-> FALSE, clock |-> 0]
    /\ procs \in [Procs -> [cmd : Cmds, pc : {"start"}, state : {None},
                            exc : {NoExc}, at : {0}]]
    /\ fs = InitFs
    /\ now = 0
    /\ session = Closed
    /\ last = [op |-> "init", task |-> "", exit |-> 0, msg |-> "", ret |-> None,
               before |-> InitFs, view |-> Closed]
    /\ sinput = << >>
    /\ sresult = None

MidCommand(p) == procs[p].pc \in {"loaded", "writing"}

\* p takes a step while another process is between its load and its write
Overlaps(p) == \E q \in Procs \ {p} : MidCommand(q)

\* state = self.load_state(); the None check; the change to the copy
PLoad(p) ==
    /\ procs[p].pc = "start"
    /\ LET clock == hist.clock + 1
           l == load_state(cfile, clock)
           exc == IF l.exc # NoExc THEN l.exc
                  ELSE IF l.value = None THEN "StateManagerError" ELSE NoExc
       IN  /\ procs' = [procs EXCEPT ![p] =
                          IF exc # NoExc
                          THEN [@ EXCEPT !.pc = "failed", !.exc = exc]
                          ELSE [@ EXCEPT !.pc = "loaded", !.at = clock,
                                         !.state = Mutate(procs[p].cmd, l.value, clock)]]
           /\ hist' = [hist EXCEPT !.clock = clock,
                                   !.overlap = @ \/ Overlaps(p),
                                   !.order = IF exc # NoExc THEN Append(@, p) ELSE @]
    /\ UNCHANGED <<cfile, specVars, schedVars>>

\* save_state: self.state_file.open("w") empties the file
POpen(p) ==
    /\ procs[p].pc = "loaded"
    /\ cfile' = WriteFile(cfile, None, "write_fails").file
    /\ procs' = [procs EXCEPT ![p].pc = "writing"]
    /\ hist' = [hist EXCEPT !.overlap = @ \/ Overlaps(p)]
    /\ UNCHANGED <<specVars, schedVars>>

\* save_state: json.dump and the close that ends the with block
PWrite(p) ==
    /\ procs[p].pc = "writing"
    /\ cfile' = save_state(cfile, procs[p].state, "ok").file
    /\ procs' = [procs EXCEPT ![p].pc = "done"]
    /\ hist' = [hist EXCEPT !.overlap = @ \/ Overlaps(p), !.order = Append(@, p)]
    /\ UNCHANGED <<specVars, schedVars>>

NextConc == \E p \in Procs : PLoad(p) \/ POpen(p) \/ PWrite(p)

SpecConc == InitConc /\ [][NextConc]_vars

(***************************************************************************)
(* SpecSched: a Schedule is built from a list of valid tasks, by the       *)
(* constructor, by load_schedule_dict or by load_schedule from a file.     *)
(***************************************************************************)
StartTimes == {<<9, 0>>, <<9, 30>>, <<10, 0>>}

\* Valid tasks: any id, any start, one hour long
InputTasks == {Task(id, st, <<st[1] + 1, st[2]>>, "medium") : id \in TaskIds, st \in StartTimes}

TaskLists == UNION {[1..n -> InputTasks] : n \in 0..MaxTasks}

NotBuilt == [via |-> "none", exc |-> NoExc, value |-> None]

InitSched ==
    /\ sinput \in [date : {D1}, tasks : TaskLists]
    /\ sresult = NotBuilt
    /\ fs = InitFs
    /\ now = 0
    /\ session = Closed
    /\ last = [op |-> "init", task |-> "", exit |-> 0, msg |-> "", ret |-> None,
               before |-> InitFs, view |-> Closed]
    /\ cfile = Absent
    /\ procs = << >>
    /\ hist = << >>

\* The schedule document a file or dict holds for the input
InputDoc == [date |-> isoformat(sinput.date), tasks |-> sinput.tasks]

\* Schedule(date=..., tasks=[...])
Construct ==
    /\ sresult = NotBuilt
    /\ LET r == NewSchedule(sinput.date, sinput.tasks)
       IN  sresult' = [via |-> "constructor", exc |-> r.exc, value |-> r.value]
    /\ UNCHANGED <<sinput, specVars, concVars>>

\* load_schedule_dict(data)
LoadDict ==
    /\ sresult = NotBuilt
    /\ LET r == schedule_model_validate(InputDoc)
       IN  sresult' = [via |-> "load_schedule_dict", exc |-> r.exc, value |-> r.value]
    /\ UNCHANGED <<sinput, specVars, concVars>>

\* load_schedule(path) of a file holding the document
LoadFile ==
    /\ sresult = NotBuilt
    /\ LET r == load_schedule(JsonFile(InputDoc))
       IN  sresult' = [via |-> "load_schedule", exc |-> r.exc, value |-> r.value]
    /\ UNCHANGED <<sinput, specVars, concVars>>

NextSched == Construct \/ LoadDict \/ LoadFile

SpecSched == InitSched /\ [][NextSched]_vars

(***************************************************************************)
(* SpecLib: the functions of models.py, schedule_parser.py, validator.py   *)
(* and report_generator.py, each applied once to an input drawn from a     *)
(* bounded set.  sinput is the call and its arguments, sresult what the    *)
(* call gave.                                                              *)
(***************************************************************************)
\* Task lists in which no id occurs twice
DistinctLists == {s \in TaskLists : \A i, j \in DOMAIN s : s[i].id = s[j].id => i = j}

\* The calls made
\* The times of day the current task is asked for after a validation: every
\* start and end of the intervals the validated schedules are made of, and
\* the minutes next to them
ActiveTimes ==
    {[hour |-> t[1], minute |-> t[2]] :
        t \in {<<8, 59>>, <<9, 0>>, <<9, 3>>, <<9, 4>>, <<9, 5>>, <<9, 7>>,
               <<9, 11>>, <<9, 12>>, <<13, 0>>, <<13, 10>>, <<13, 12>>,
               <<13, 13>>, <<15, 29>>, <<15, 30>>}}

LibCalls ==
    LET Perms(n) == {p \in [1..n -> 1..n] : Range(p) = 1..n}
        LoadTwice == UNION {{[call |-> "load_twice", date |-> D1, tasks |-> s,
                              tasks2 |-> [i \in DOMAIN s |-> s[p[i]]]] :
                                 p \in Perms(Len(s))} : s \in DistinctLists}
        Doc(id, start, end, fields) ==
          [f \in fields |-> Task(id, start, end, "medium")[f]]
        AllFields == {"id", "title", "start_time", "end_time", "description", "priority"}
        FaultyDocs ==
          UNION {{Doc(id, <<9, 0>>, <<10, 0>>, AllFields),
                  Doc(id, <<9, 0>>, <<10, 0>>, AllFields \ {"title"}),
                  Doc(id, <<25, 0>>, <<10, 0>>, AllFields),
                  Doc(id, <<10, 0>>, <<9, 0>>, AllFields),
                  Doc(id, <<10, 0>>, <<10, 0>>, AllFields \ {"title"})} :
                     id \in {"t1", "t2"}}
        LoadErrors == {[call |-> "load_errors", date |-> D1, tasks |-> s] :
                          s \in UNION {[1..n -> FaultyDocs] : n \in 0..MaxTasks}}
        Schedules == {NewSchedule(D1, s).value : s \in DistinctLists}
        Times == {[hour |-> t[1], minute |-> t[2]] :
                     t \in {<<8, 59>>, <<9, 0>>, <<9, 30>>, <<9, 59>>,
                            <<10, 0>>, <<10, 30>>, <<11, 0>>}}
        Current == [call : {"current"}, schedule : Schedules, time : Times]
        Upcoming == [call : {"upcoming"}, schedule : Schedules, time : Times,
                     limit : -1..(MaxTasks + 1)]
        Intervals == {<<<<9, 0>>, <<9, 4>>>>, <<<<9, 0>>, <<9, 5>>>>,
                      <<<<9, 7>>, <<9, 12>>>>, <<<<9, 0>>, <<13, 0>>>>,
                      <<<<9, 12>>, <<13, 13>>>>, <<<<13, 10>>, <<15, 30>>>>}
        Timed(v) == NewSchedule(D1, [i \in DOMAIN v |->
                                       Task("t" \o ToString(i), v[i][1], v[i][2], "medium")]).value
        Validate == [call : {"validate"},
                     schedule : {Timed(v) : v \in UNION {[1..n -> Intervals] : n \in 0..MaxTasks}},
                     warn_overlapping : BOOLEAN, warn_gaps : BOOLEAN,
                     min_gap_minutes : {0, 3, 5}, max_gap_minutes : {2, 120}]
        Active == [call : {"active"},
                   schedule : {Timed(v) : v \in UNION {[1..n -> Intervals] : n \in 0..MaxTasks}},
                   warn_gaps : BOOLEAN]
        Prioritised(v) ==
          NewSchedule(D1, [i \in DOMAIN v |->
                             Task("t" \o ToString(i), <<8 + i, 0>>, <<9 + i, 0>>, v[i])]).value
        D60 == "aaaaaaaaaabbbbbbbbbbccccccccccddddddddddeeeeeeeeeeffffffffff"
        Described(d) ==
          NewSchedule(D1, << [Task("t1", <<9, 0>>, <<10, 0>>, "high")
                                 EXCEPT !.description = d] >>).value
        ReportSchedules ==
          Schedules
            \cup {Prioritised(v) : v \in UNION {[1..n -> {"high", "medium", "low"}] :
                                                   n \in 0..MaxReportTasks}}
            \cup {Described(d) : d \in {"", "a", SubSeq(D60, 1, 59), D60,
                                         D60 \o "g", D60 \o D60}}
        Report == [call : {"report"}, schedule : ReportSchedules,
                   state : {[NewAppState(SchedA, D1, 0) EXCEPT !.completed_tasks = c] :
                               c \in SUBSET {"t" \o ToString(i) : i \in 1..MaxReportTasks}},
                   clock : {1}, clock2 : {1, 2}]
        ReportFiles == {BinaryFile} \cup {TextFile([completion_pct |-> p]) :
                                             p \in {0, 286, 333, 375}}
        Trends == [call : {"trends"},
                   reports_dir :
                     {Absent} \cup {[kind |-> "dir", files |-> q] :
                                       q \in UNION {[1..n -> ReportFiles] : n \in 0..MaxReports}},
                   days : {2, 7}]
    IN  LoadTwice \cup LoadErrors \cup Current \cup Upcoming \cup Validate \cup Active
            \cup Report \cup Trends

InitLib ==
    /\ sinput \in LibCalls
    /\ sresult = NotBuilt
    /\ fs = InitFs
    /\ now = 0
    /\ session = Closed
    /\ last = [op |-> "init", task |-> "", exit |-> 0, msg |-> "", ret |-> None,
               before |-> InitFs, view |-> Closed]
    /\ cfile = Absent
    /\ procs = << >>
    /\ hist = << >>

\* load_schedule of two files holding the same tasks in different order
LoadTwice ==
    /\ sinput.call = "load_twice"
    /\ sresult = NotBuilt
    /\ sresult' = [via |-> "load_twice",
                   first |-> load_schedule(JsonFile([date |-> isoformat(sinput.date),
                                                     tasks |-> sinput.tasks])),
                   second |-> load_schedule(JsonFile([date |-> isoformat(sinput.date),
                                                      tasks |-> sinput.tasks2]))]
    /\ UNCHANGED <<sinput, specVars, concVars>>

\* load_schedule of a file whose tasks may each be invalid in some way
LoadErrors ==
    /\ sinput.call = "load_errors"
    /\ sresult = NotBuilt
    /\ \E f \in {JsonFile([date |-> isoformat(sinput.date), tasks |-> sinput.tasks])} :
          sresult' = [via |-> "load_errors",
                      exc |-> load_schedule(f).exc,
                      errors |-> load_schedule_messages(f)]
    /\ UNCHANGED <<sinput, specVars, concVars>>

\* schedule.get_current_task(time)
CallCurrent ==
    /\ sinput.call = "current"
    /\ sresult = NotBuilt
    /\ sresult' = [via |-> "current",
                   value |-> get_current_task(sinput.schedule, sinput.time)]
    /\ UNCHANGED <<sinput, specVars, concVars>>

\* schedule.get_upcoming_tasks(time, limit)
CallUpcoming ==
    /\ sinput.call = "upcoming"
    /\ sresult = NotBuilt
    /\ sresult' = [via |-> "upcoming",
                   value |-> get_upcoming_tasks(sinput.schedule, sinput.time, sinput.limit)]
    /\ UNCHANGED <<sinput, specVars, concVars>>

\* validate_schedule(schedule, ...) with the options of the configuration
CallValidate ==
    /\ sinput.call = "validate"
    /\ sresult = NotBuilt
    /\ sresult' = [via |-> "validate",
                   value |-> validate_schedule(sinput.schedule, sinput.warn_overlapping,
                                               sinput.warn_gaps, sinput.min_gap_minutes,
                                               sinput.max_gap_minutes)]
    /\ UNCHANGED <<sinput, specVars, concVars>>

\* validate_schedule(schedule) with the overlap check, and
\* schedule.get_current_task(t) of the same schedule at each time of day
CallActive ==
    /\ sinput.call = "active"
    /\ sresult = NotBuilt
    /\ sresult' = [via |-> "active",
                   warnings |-> validate_schedule(sinput.schedule, TRUE,
                                                  sinput.warn_gaps, 3, 120),
                   current |-> [t \in ActiveTimes |->
                                  get_current_task(sinput.schedule, t)]]
    /\ UNCHANGED <<sinput, specVars, concVars>>

\* generate_report(schedule, state) called when the wall clock reads clock
\* and again when it reads clock2; the state may name tasks the schedule
\* does not have
CallReport ==
    /\ sinput.call = "report"
    /\ sresult = NotBuilt
    /\ sresult' = [via |-> "report",
                   value |-> generate_report(sinput.schedule, sinput.state, sinput.clock),
                   again |-> generate_report(sinput.schedule, sinput.state, sinput.clock2)]
    /\ UNCHANGED <<sinput, specVars, concVars>>

\* analyze_productivity_trends(reports_dir, days)
CallTrends ==
    /\ sinput.call = "trends"
    /\ sresult = NotBuilt
    /\ \E rounding \in Roundings :
          sresult' = [via |-> "trends",
                      value |-> analyze_productivity_trends(sinput.reports_dir,
                                                            sinput.days, rounding)]
    /\ UNCHANGED <<sinput, specVars, concVars>>

NextLib ==
    \/ LoadTwice
    \/ LoadErrors
    \/ CallCurrent
    \/ CallUpcoming
    \/ CallValidate
    \/ CallActive
    \/ CallReport
    \/ CallTrends

SpecLib == InitLib /\ [][NextLib]_vars

(***************************************************************************)
(* Properties of the state persister (Spec).                               *)
(***************************************************************************)
\* The AppState a state file holds; None when it holds none that loads
StateOf(f) == load_state(f, 0).value
Readable(f) == load_state(f, 0).exc = NoExc /\ StateOf(f) # None

Before == StateOf(last.before[StateFile])
After == StateOf(fs[StateFile])
MarkOps == {"mark_task_complete", "mark_task_incomplete"}
Returned == last.msg = NoExc

\* C1: a mark_task_complete(t) / mark_task_incomplete(t) call that returns
\* leaves a state file whose completed set is the set before with t added /
\* removed, and whose schedule_file, schedule_date and task_notes are the
\* ones before; so a sequence of calls is the sequence of set operations,
\* and re-marking changes nothing but last_updated.
C1_MarkIsSetOperation ==
    (last.op \in MarkOps /\ Returned) =>
        /\ Readable(last.before[StateFile])
        /\ Readable(fs[StateFile])
        /\ After.completed_tasks =
             IF last.op = "mark_task_complete"
             THEN Before.completed_tasks \cup {last.task}
             ELSE Before.completed_tasks \ {last.task}
        /\ After.schedule_file = Before.schedule_file
        /\ After.schedule_date = Before.schedule_date
        /\ After.task_notes = Before.task_notes
        /\ After.last_updated = now
        /\ \A p \in Paths \ {StateFile} : fs[p] = last.before[p]

\* C1 witness: a task that was already complete is marked complete again,
\* another task is complete too, and only last_updated has changed
C1_Witness ==
    /\ last.op = "mark_task_complete"
    /\ Returned
    /\ last.task \in Before.completed_tasks
    /\ Before.completed_tasks # {last.task}
    /\ After.completed_tasks = Before.completed_tasks
    /\ After.last_updated # Before.last_updated

\* C4: with no state file, mark_task_complete / mark_task_incomplete raise
\* StateManagerError for every task id and create no file
C4_MarkWithoutStateFails ==
    (last.op \in MarkOps /\ ~Exists(last.before[StateFile])) =>
        /\ last.msg = "StateManagerError"
        /\ fs = last.before
        /\ ~state_exists(fs[StateFile])
        /\ load_state(fs[StateFile], now) = [exc |-> NoExc, value |-> None]

C4_Witness ==
    /\ last.op = "mark_task_incomplete"
    /\ last.task = "t3"
    /\ ~Exists(last.before[StateFile])
    /\ last.msg = "StateManagerError"
    /\ ~state_exists(fs[StateFile])

\* C3 as claimed: whatever happens to a save, the state file afterwards
\* loads as the complete state before or as a complete new state
C3_SaveIsAtomic ==
    (/\ last.op \in MarkOps \cup {"load", "complete", "complete_undo", "note"}
     /\ Readable(last.before[StateFile])) =>
        \/ load_state(fs[StateFile], 0) = load_state(last.before[StateFile], 0)
        \/ Readable(fs[StateFile])

\* C5 as claimed: load_state returns None exactly when the file is absent,
\* and for a file that exists it returns a state or raises StateManagerError
C5_LoadStateRaisesOnlyStateManagerError ==
    (last.op = "load_state") =>
        /\ (Returned /\ last.ret = None) <=> ~Exists(last.before[StateFile])
        /\ Exists(last.before[StateFile]) => last.msg \in {NoExc, "StateManagerError"}

\* C6: clear_state on an absent file returns and changes nothing; when it
\* returns, no state file exists, load_state returns None, no other file
\* has changed and a second clear_state changes nothing
C6_ClearState ==
    (last.op = "clear_state") =>
        /\ ~Exists(last.before[StateFile]) => (Returned /\ fs = last.before)
        /\ Returned =>
             /\ ~state_exists(fs[StateFile])
             /\ load_state(fs[StateFile], now) = [exc |-> NoExc, value |-> None]
             /\ \A p \in Paths \ {StateFile} : fs[p] = last.before[p]
             /\ \A u \in BOOLEAN :
                  clear_state(fs[StateFile], u) = [exc |-> NoExc, file |-> fs[StateFile]]
        /\ ~Returned => fs = last.before

C6_Witness ==
    /\ last.op = "clear_state"
    /\ Returned
    /\ Readable(last.before[StateFile])
    /\ Before.completed_tasks # {}
    /\ ~state_exists(fs[StateFile])

\* The schedule a command finds through the state file
ScheduleBefore == load_schedule(FileAt(last.before, Before.schedule_file))
TaskKnown ==
    \E i \in DOMAIN ScheduleBefore.value.tasks :
        ScheduleBefore.value.tasks[i].id = last.task

\* C9: complete, complete --undo and note with a task id that is not in
\* the loaded schedule exit 1 with the task-not-found message and leave the
\* state file, and every other file, as it was
C9_UnknownTaskLeavesState ==
    (/\ last.op \in {"complete", "complete_undo", "note"}
     /\ Readable(last.before[StateFile])
     /\ ScheduleBefore.exc = NoExc
     /\ ~TaskKnown) =>
        /\ last.exit = 1
        /\ last.msg = "task_not_found"
        /\ fs = last.before

C9_Witness ==
    /\ last.op = "note"
    /\ last.msg = "task_not_found"
    /\ Readable(last.before[StateFile])
    /\ Before.completed_tasks # {}
    /\ ~TaskKnown
    /\ After = Before

(***************************************************************************)
(* Properties of the display session (SpecView).                           *)
(***************************************************************************)
\* What the session showed for a task when the toggle was pressed
ShownComplete(u) ==
    \E i \in DOMAIN last.view.items :
        last.view.items[i].task_id = u /\ last.view.items[i].task_is_completed

\* C8: a toggle changes the state as it is on disk at that moment: the
\* completion of every other task and all notes are those on disk before
\* the toggle, whatever the session showed
C8_ToggleAppliesToDiskState ==
    (last.op = "toggle" /\ last.msg = "toggled") =>
        /\ Readable(last.before[StateFile])
        /\ Readable(fs[StateFile])
        /\ \A u \in TaskIds \ {last.task} :
             u \in After.completed_tasks <=> u \in Before.completed_tasks
        /\ After.task_notes = Before.task_notes

\* C8 witness: another process completed a task after the last render (the
\* session still showed it incomplete) and it is still complete after the
\* session toggled a different task
C8_Witness ==
    /\ last.op = "toggle"
    /\ last.msg = "toggled"
    /\ \E u \in TaskIds \ {last.task} :
          /\ \E i \in DOMAIN last.view.items : last.view.items[i].task_id = u
          /\ ~ShownComplete(u)
          /\ u \in Before.completed_tasks
          /\ u \in After.completed_tasks

(***************************************************************************)
(* Properties of two concurrent read-modify-writes (SpecConc).             *)
(***************************************************************************)
AllFinished == \A p \in Procs : procs[p].pc \in {"done", "failed"}
OtherProc(p) == CHOOSE q \in Procs : q # p

\* The commands that returned, applied one after the other in the order
\* they finished
RECURSIVE ApplyInOrder(_, _)
ApplyInOrder(state, order) ==
    IF order = << >> THEN state
    ELSE LET p == Head(order)
         IN  ApplyInOrder(IF procs[p].pc = "done"
                          THEN Mutate(procs[p].cmd, state, procs[p].at)
                          ELSE state,
                          Tail(order))

\* q finished after p and its command was to unmark p's task
UndoneLater(p) ==
    LET q == OtherProc(p)
    IN  /\ procs[q].cmd = [kind |-> "undo", task |-> procs[p].cmd.task]
        /\ hist.order = <<p, q>>

\* C2: when the two read-modify-writes run one after the other, both
\* return, the state file holds both changes in the order made, and a task
\* marked complete is in the completed set unless the later call unmarked
\* it; the witness shows that with interleaved steps an update is lost.
C2_SequentialKeepsBothUpdates ==
    (AllFinished /\ ~hist.overlap /\ Exists(hist.init)) =>
        /\ \A p \in Procs : procs[p].pc = "done"
        /\ Readable(cfile)
        /\ StateOf(cfile) = ApplyInOrder(StateOf(hist.init), hist.order)
        /\ \A p \in Procs :
             procs[p].cmd.kind = "complete" =>
                \/ procs[p].cmd.task \in StateOf(cfile).completed_tasks
                \/ UndoneLater(p)

\* C2 witness: both calls returned, one marked a task complete, the other
\* added a note, and the task is not in the persisted completed set
C2_LostUpdate ==
    /\ \A p \in Procs : procs[p].pc = "done"
    /\ hist.overlap
    /\ Readable(cfile)
    /\ \E p \in Procs :
         /\ procs[p].cmd.kind = "complete"
         /\ procs[OtherProc(p)].cmd.kind = "note"
         /\ procs[p].cmd.task \notin StateOf(cfile).completed_tasks

(***************************************************************************)
(* Properties of Schedule construction (SpecSched).                        *)
(***************************************************************************)
MinuteOfDay(t) == t[1] * 60 + t[2]

Count(x, seq) == Cardinality({i \in DOMAIN seq : seq[i] = x})

\* C10: a Schedule built from valid tasks holds exactly the tasks given,
\* each as often as given, in ascending order of start time; it is built
\* whenever the ids are pairwise distinct
C10_TasksSortedByStart ==
    (sresult.via # "none") =>
        /\ sresult.exc = NoExc <=>
             \A i, j \in DOMAIN sinput.tasks :
                sinput.tasks[i].id = sinput.tasks[j].id => i = j
        /\ sresult.exc = NoExc =>
             LET out == sresult.value.tasks
             IN  /\ Len(out) = Len(sinput.tasks)
                 /\ \A x \in InputTasks : Count(x, out) = Count(x, sinput.tasks)
                 /\ \A i, j \in DOMAIN out :
                      i < j => MinuteOfDay(out[i].start_time) <= MinuteOfDay(out[j].start_time)
                 /\ sresult.value.date = sinput.date

\* C10 witness: three tasks given latest first come out earliest first
C10_Witness ==
    /\ sresult.via = "load_schedule"
    /\ sresult.exc = NoExc
    /\ Len(sinput.tasks) = 3
    /\ \A i \in 1..2 :
         MinuteOfDay(sinput.tasks[i].start_time) > MinuteOfDay(sinput.tasks[i + 1].start_time)
    /\ sresult.value.tasks = <<sinput.tasks[3], sinput.tasks[2], sinput.tasks[1]>>

(***************************************************************************)
(* Properties of the files the commands write (SpecFiles).                 *)
(***************************************************************************)
\* C7 as claimed: whatever the commands do, a schedule file changes only
\* by a save_schedule to its path
C7_ScheduleFileNeverWritten ==
    (last.op # "save_schedule") =>
        \A p \in ScheduleFiles : fs[p] = last.before[p]

(***************************************************************************)
(* Properties of the library functions (SpecLib, SpecSched).               *)
(***************************************************************************)
\* C11 as claimed: two files whose task lists are permutations of one
\* another load to the same Schedule, also when tasks share a start time
C11_LoadIgnoresFileOrder ==
    (sresult.via = "load_twice") => sresult.first = sresult.second

Failures(tasks) ==
    LET Minutes(t) == t[1] * 60 + t[2]
        WellFormed(t) == t[1] \in 0..23 /\ t[2] \in 0..59
    IN  UNION {{[task |-> i, what |-> "missing_" \o f] :
                   f \in {"id", "title", "start_time", "end_time"} \ DOMAIN tasks[i]}
               \cup {[task |-> i, what |-> "bad_" \o f] :
                        f \in {g \in {"start_time", "end_time"} \cap DOMAIN tasks[i] :
                                 ~WellFormed(tasks[i][g])}}
               \cup {[task |-> i, what |-> "end_not_after_start"] :
                        x \in {y \in {1} :
                                 /\ {"start_time", "end_time"} \subseteq DOMAIN tasks[i]
                                 /\ WellFormed(tasks[i].start_time)
                                 /\ WellFormed(tasks[i].end_time)
                                 /\ Minutes(tasks[i].end_time) <= Minutes(tasks[i].start_time)}} :
                 i \in DOMAIN tasks}
        \cup {[task |-> 0, what |-> "duplicate_ids"] :
                x \in {y \in {1} : \E i, j \in DOMAIN tasks :
                                      /\ i # j
                                      /\ "id" \in DOMAIN tasks[i] \cap DOMAIN tasks[j]
                                      /\ tasks[i].id = tasks[j].id}}

\* C13 as claimed: the ScheduleParseError of load_schedule lists every
\* validation failure the file has, whichever validation stage finds it
C13_AllFailuresEnumerated ==
    (sresult.via = "load_errors") =>
        /\ sresult.exc = "ScheduleParseError" <=> Failures(sinput.tasks) # {}
        /\ sresult.errors = Failures(sinput.tasks)

\* The positions of the tasks whose [start, end) holds the time asked for
Containing ==
    {i \in DOMAIN sinput.schedule.tasks :
        /\ MinuteOfDay(sinput.schedule.tasks[i].start_time)
              <= sinput.time.hour * 60 + sinput.time.minute
        /\ sinput.time.hour * 60 + sinput.time.minute
              < MinuteOfDay(sinput.schedule.tasks[i].end_time)}

\* C14 as claimed: get_current_task returns None exactly when no task's
\* [start, end) holds t, and otherwise the one and only task that holds t
C14_CurrentTaskIsUnique ==
    (sresult.via = "current") =>
        /\ sresult.value = None <=> Containing = {}
        /\ \A i \in Containing : sinput.schedule.tasks[i] = sresult.value

\* C14 amended: get_current_task returns None exactly when no task's
\* [start, end) holds t, and otherwise the first task in schedule order
\* whose interval holds t, which is the only one when no two tasks holding
\* t overlap; a task that ends at t is never returned
C14_CurrentTaskIsFirstContaining ==
    (sresult.via = "current") =>
        /\ sresult.value = None <=> Containing = {}
        /\ Containing # {} =>
             \E i \in Containing :
                /\ sresult.value = sinput.schedule.tasks[i]
                /\ \A j \in Containing : i <= j
        /\ sresult.value # None =>
             MinuteOfDay(sresult.value.end_time)
                # sinput.time.hour * 60 + sinput.time.minute

\* C14 witness: one task ends at 10:00 where the next starts, the question
\* is asked at 10:00 and the later task is the answer
C14_Witness ==
    /\ sresult.via = "current"
    /\ sinput.time = [hour |-> 10, minute |-> 0]
    /\ \E i \in DOMAIN sinput.schedule.tasks :
          sinput.schedule.tasks[i].end_time = <<10, 0>>
    /\ sresult.value # None
    /\ sresult.value.start_time = <<10, 0>>

\* The positions of the tasks that start after the time asked for
Later ==
    {i \in DOMAIN sinput.schedule.tasks :
        MinuteOfDay(sinput.schedule.tasks[i].start_time)
           > sinput.time.hour * 60 + sinput.time.minute}

\* C15: for limit n >= 0, get_upcoming_tasks returns the first min(n, m) of
\* the m tasks that start strictly after t, in schedule order, which is
\* ascending start time
C15_UpcomingTasks ==
    (sresult.via = "upcoming" /\ sinput.limit >= 0) =>
        LET n == IF sinput.limit < Cardinality(Later)
                 THEN sinput.limit ELSE Cardinality(Later)
        IN  /\ Len(sresult.value) = n
            /\ \A k \in 1..n :
                 \E i \in Later :
                    /\ Cardinality({j \in Later : j < i}) = k - 1
                    /\ sresult.value[k] = sinput.schedule.tasks[i]
            /\ \A k \in 1..(n - 1) :
                 MinuteOfDay(sresult.value[k].start_time)
                    <= MinuteOfDay(sresult.value[k + 1].start_time)

\* C15 witness: of three tasks one starts exactly at t and two later; with
\* limit 1 only the earlier of the two later ones is returned
C15_Witness ==
    /\ sresult.via = "upcoming"
    /\ sinput.limit = 1
    /\ Len(sinput.schedule.tasks) = 3
    /\ Cardinality(Later) = 2
    /\ \E i \in DOMAIN sinput.schedule.tasks :
          get_start_time(sinput.schedule.tasks[i]) = sinput.time
    /\ sresult.value = <<sinput.schedule.tasks[2]>>

\* How many warnings of a type name exactly the given tasks, in either order
Warnings(type, tasks) ==
    Cardinality({k \in DOMAIN sresult.value :
                   /\ sresult.value[k].type = type
                   /\ Range(sresult.value[k].tasks) = tasks
                   /\ Len(sresult.value[k].tasks) = Cardinality(tasks)})

\* Two tasks' [start, end) have a minute in common
Intersect(a, b) ==
    LET Max(x, y) == IF x > y THEN x ELSE y
        Min(x, y) == IF x < y THEN x ELSE y
    IN  Max(MinuteOfDay(a.start_time), MinuteOfDay(b.start_time))
           < Min(MinuteOfDay(a.end_time), MinuteOfDay(b.end_time))

\* C16: with warn_overlapping, every pair of tasks whose intervals
\* intersect, adjacent in the list or not, gets exactly one overlap warning
\* of severity error naming the two; a pair that does not intersect, or
\* only touches, gets none, and no overlap warning names anything else
C16_OverlapWarnings ==
    (sresult.via = "validate" /\ sinput.warn_overlapping) =>
        /\ \A i, j \in DOMAIN sinput.schedule.tasks :
             i < j =>
               Warnings("overlap", {sinput.schedule.tasks[i], sinput.schedule.tasks[j]})
                  = IF Intersect(sinput.schedule.tasks[i], sinput.schedule.tasks[j])
                    THEN 1 ELSE 0
        /\ \A k \in DOMAIN sresult.value :
             sresult.value[k].type = "overlap" =>
                /\ sresult.value[k].severity = "error"
                /\ \E i, j \in DOMAIN sinput.schedule.tasks :
                      /\ i < j
                      /\ sresult.value[k].tasks
                            = <<sinput.schedule.tasks[i], sinput.schedule.tasks[j]>>

\* C16 witness: the first and the third of three tasks overlap, the second
\* and the third only touch, and there are exactly two overlap warnings
C16_Witness ==
    /\ sresult.via = "validate"
    /\ sinput.warn_overlapping
    /\ Len(sinput.schedule.tasks) = 3
    /\ Intersect(sinput.schedule.tasks[1], sinput.schedule.tasks[3])
    /\ sinput.schedule.tasks[2].end_time = sinput.schedule.tasks[3].start_time
    /\ Warnings("overlap", {sinput.schedule.tasks[1], sinput.schedule.tasks[3]}) = 1
    /\ Warnings("overlap", {sinput.schedule.tasks[2], sinput.schedule.tasks[3]}) = 0
    /\ Cardinality({k \in DOMAIN sresult.value : sresult.value[k].type = "overlap"}) = 2

\* The gap in minutes from the end of one task to the start of another
Gap(a, b) == MinuteOfDay(b.start_time) - MinuteOfDay(a.end_time)

\* C17 as claimed: with warn_gaps, for every setting of the two limits, a
\* pair of consecutive tasks gets a short_gap warning exactly when
\* 0 < g < min_gap_minutes and a large_gap warning exactly when
\* g > max_gap_minutes; no other pair gets a gap warning
C17_GapWarnings ==
    (sresult.via = "validate" /\ sinput.warn_gaps) =>
        \A i, j \in DOMAIN sinput.schedule.tasks :
           i < j =>
             LET a == sinput.schedule.tasks[i]
                 b == sinput.schedule.tasks[j]
             IN  /\ Warnings("short_gap", {a, b})
                       = IF /\ j = i + 1
                            /\ 0 < Gap(a, b)
                            /\ Gap(a, b) < sinput.min_gap_minutes
                         THEN 1 ELSE 0
                 /\ Warnings("large_gap", {a, b})
                       = IF j = i + 1 /\ Gap(a, b) > sinput.max_gap_minutes
                         THEN 1 ELSE 0

\* C17 amended: with warn_gaps, a pair of consecutive tasks gets a
\* short_gap warning exactly when 0 < g < min_gap_minutes, and a large_gap
\* warning exactly when g > max_gap_minutes and the gap is not short in
\* that sense (the two can only both apply when min_gap_minutes exceeds
\* max_gap_minutes by more than one); no other pair gets a gap warning
\* and all gap warnings have severity warning
C17_OneGapWarningPerPair ==
    (sresult.via = "validate" /\ sinput.warn_gaps) =>
        /\ \A i, j \in DOMAIN sinput.schedule.tasks :
             i < j =>
               LET a == sinput.schedule.tasks[i]
                   b == sinput.schedule.tasks[j]
                   short == /\ j = i + 1
                            /\ 0 < Gap(a, b)
                            /\ Gap(a, b) < sinput.min_gap_minutes
               IN  /\ Warnings("short_gap", {a, b}) = IF short THEN 1 ELSE 0
                   /\ Warnings("large_gap", {a, b})
                         = IF /\ j = i + 1
                              /\ Gap(a, b) > sinput.max_gap_minutes
                              /\ ~short
                           THEN 1 ELSE 0
        /\ \A k \in DOMAIN sresult.value :
             sresult.value[k].type \in {"short_gap", "large_gap"} =>
                sresult.value[k].severity = "warning"

\* C17 witness: three tasks with gaps of 3 and 238 minutes, limits 5 and
\* 120: one short_gap, one large_gap, nothing for the first and the third
C17_Witness ==
    /\ sresult.via = "validate"
    /\ sinput.warn_gaps
    /\ sinput.min_gap_minutes = 5
    /\ sinput.max_gap_minutes = 120
    /\ Len(sinput.schedule.tasks) = 3
    /\ Gap(sinput.schedule.tasks[1], sinput.schedule.tasks[2]) = 3
    /\ Gap(sinput.schedule.tasks[2], sinput.schedule.tasks[3]) = 238
    /\ Warnings("short_gap", {sinput.schedule.tasks[1], sinput.schedule.tasks[2]}) = 1
    /\ Warnings("large_gap", {sinput.schedule.tasks[2], sinput.schedule.tasks[3]}) = 1
    /\ Warnings("large_gap", {sinput.schedule.tasks[1], sinput.schedule.tasks[3]}) = 0

\* C18: whatever the options, each task shorter than 5 minutes gets exactly
\* one short_duration warning, each task longer than 240 minutes exactly
\* one long_duration warning, both of severity warning, and a task of 5 to
\* 240 minutes gets neither
C18_DurationWarnings ==
    (sresult.via = "validate") =>
        /\ \A i \in DOMAIN sinput.schedule.tasks :
             LET task == sinput.schedule.tasks[i]
                 d == MinuteOfDay(task.end_time) - MinuteOfDay(task.start_time)
             IN  /\ Warnings("short_duration", {task}) = IF d < 5 THEN 1 ELSE 0
                 /\ Warnings("long_duration", {task}) = IF d > 240 THEN 1 ELSE 0
        /\ \A k \in DOMAIN sresult.value :
             sresult.value[k].type \in {"short_duration", "long_duration"} =>
                /\ sresult.value[k].severity = "warning"
                /\ \E i \in DOMAIN sinput.schedule.tasks :
                      sresult.value[k].tasks = <<sinput.schedule.tasks[i]>>

\* C18 witness: both optional checks are off; tasks of 4, 240 and 241
\* minutes give one short_duration and one long_duration warning
C18_Witness ==
    /\ sresult.via = "validate"
    /\ ~sinput.warn_overlapping
    /\ ~sinput.warn_gaps
    /\ {MinuteOfDay(sinput.schedule.tasks[i].end_time)
          - MinuteOfDay(sinput.schedule.tasks[i].start_time) :
             i \in DOMAIN sinput.schedule.tasks} = {4, 240, 241}
    /\ Len(sresult.value) = 2
    /\ {sresult.value[k].type : k \in DOMAIN sresult.value}
          = {"short_duration", "long_duration"}

(***************************************************************************)
(* Properties of the completion figures (SpecView, SpecLib).               *)
(***************************************************************************)
\* The tasks of the schedule that the state holds as completed
Done(schedule, completed_tasks) ==
    {i \in DOMAIN schedule.tasks : schedule.tasks[i].id \in completed_tasks}

\* C19: in every reachable state the completion figure that info, status
\* and the report show for the schedule the state names, and the figure
\* the progress bar of an open session shows for the session's schedule,
\* is 100 * k / n, k being the number of that schedule's n tasks that are
\* completed, 0 when n = 0, and lies between 0 and 100.
C19_CompletionFigure ==
    LET Exact(k, n) == IF n = 0 THEN [num |-> 0, den |-> 1]
                       ELSE [num |-> 100 * k, den |-> n]
        Right(shown, decimals, schedule, completed_tasks) ==
            /\ shown = FormatFixed(Exact(Cardinality(Done(schedule, completed_tasks)),
                                         Len(schedule.tasks)), decimals)
            /\ shown >= 0
            /\ shown <= 100 * 10^decimals
        Printed(state, s) ==
            s.exc = NoExc =>
               /\ Right(info(fs, now).pct, 0, s.value, state.completed_tasks)
               /\ Right(status(fs, now).pct, 0, s.value, state.completed_tasks)
               /\ Right(generate_report(s.value, state, now).completion_pct, 1,
                        s.value, state.completed_tasks)
        Commands(l) ==
            (l.exc = NoExc /\ l.value # None) =>
               Printed(l.value, load_schedule(FileAt(fs, l.value.schedule_file)))
        Bar(l) ==
            (session.open /\ l.exc = NoExc) =>
               Right(render_progress(session, fs, now).bar.percentage, 1,
                     session.schedule,
                     IF l.value = None THEN {} ELSE l.value.completed_tasks)
    IN  /\ Commands(load_state(fs[StateFile], now))
        /\ Bar(load_state(fs[StateFile], now))

\* C20: in every generated report the Completed count is the number of
\* tasks listed under COMPLETED TASKS, the Incomplete count the number
\* listed under INCOMPLETE TASKS, the two lists partition the schedule's
\* tasks and keep schedule order, Completed + Incomplete = Total, and
\* neither count is negative.
C20_ReportCounts ==
    sresult.via = "report" =>
       LET r == sresult.value
           tasks == sinput.schedule.tasks
       IN  /\ r.completed_tasks = Len(r.completed_task_list)
           /\ r.incomplete_tasks = Len(r.incomplete_task_list)
           /\ r.completed_task_list =
                 SelectSeq(tasks, LAMBDA t : t \in Range(r.completed_task_list))
           /\ r.incomplete_task_list =
                 SelectSeq(tasks, LAMBDA t : t \in Range(r.incomplete_task_list))
           /\ Range(r.completed_task_list) \cup Range(r.incomplete_task_list)
                 = Range(tasks)
           /\ Range(r.completed_task_list) \cap Range(r.incomplete_task_list) = {}
           /\ r.completed_tasks + r.incomplete_tasks = r.total_tasks
           /\ r.total_tasks = Len(tasks)
           /\ r.completed_tasks >= 0
           /\ r.incomplete_tasks >= 0

(***************************************************************************)
(* Properties of the report (SpecLib).                                     *)
(***************************************************************************)
Priorities == <<"high", "medium", "low">>

\* The schedule's tasks of a priority, and those of them that are completed
OfPriority(p) ==
    {i \in DOMAIN sinput.schedule.tasks : sinput.schedule.tasks[i].priority = p}
DoneOfPriority(p) ==
    {i \in OfPriority(p) : sinput.schedule.tasks[i].id \in sinput.state.completed_tasks}

\* A line of the breakdown gives completed/total of the tasks of priority p
\* and a whole percentage nearest to 100 * completed / total (0 for no tasks)
BreakdownLineFor(l, p) ==
    /\ l.priority = p
    /\ l.total = Cardinality(OfPriority(p))
    /\ l.completed = Cardinality(DoneOfPriority(p))
    /\ IF l.total = 0 THEN l.pct = 0
       ELSE /\ 2 * (l.pct * l.total - 100 * l.completed) <= l.total
            /\ 2 * (100 * l.completed - l.pct * l.total) <= l.total

\* C21: the priority breakdown of a report has a line for each of high,
\* medium and low giving completed/total of the schedule's tasks of that
\* priority and a percentage, 0% for a priority with no tasks.
C21_PriorityBreakdown ==
    sresult.via = "report" =>
       \A k \in DOMAIN Priorities :
          /\ k \in DOMAIN sresult.value.priority_lines
          /\ BreakdownLineFor(sresult.value.priority_lines[k], Priorities[k])

\* C21, amended: the breakdown has one line, in the order high, medium,
\* low, for each priority that has at least one task in the schedule,
\* giving completed/total of the schedule's tasks of that priority and the
\* percentage; a priority with no tasks has no line.
C21_BreakdownOfPrioritiesPresent ==
    sresult.via = "report" =>
       LET lines == sresult.value.priority_lines
           Present == SelectSeq(Priorities, LAMBDA p : OfPriority(p) # {})
       IN  /\ Len(lines) = Len(Present)
           /\ \A k \in DOMAIN lines :
                 /\ lines[k].total > 0
                 /\ BreakdownLineFor(lines[k], Present[k])

C21_Witness ==
    /\ sresult.via = "report"
    /\ OfPriority("high") = {}
    /\ DoneOfPriority("medium") # {}
    /\ DoneOfPriority("medium") # OfPriority("medium")
    /\ OfPriority("low") # {}
    /\ \E id \in sinput.state.completed_tasks :
          \A i \in DOMAIN sinput.schedule.tasks : sinput.schedule.tasks[i].id # id

BandLines == {"excellent", "good", "fair", "challenging"}

\* C22: a report holds exactly one completion-band line, chosen by the
\* completion percentage p the report computes (0 for a schedule with no
\* tasks): excellent iff p >= 80, good iff 60 <= p < 80, fair iff
\* 40 <= p < 60, challenging iff p < 40.
C22_CompletionBand ==
    sresult.via = "report" =>
       LET insights == sresult.value.insights
           n == Len(sinput.schedule.tasks)
           c == IF n = 0 THEN 0 ELSE Cardinality(sinput.state.completed_tasks)
           d == IF n = 0 THEN 1 ELSE n
           Has(line) == \E i \in DOMAIN insights : insights[i].line = line
       IN  /\ Cardinality({i \in DOMAIN insights : insights[i].line \in BandLines}) = 1
           /\ Has("excellent") <=> 100 * c >= 80 * d
           /\ Has("good") <=> (100 * c >= 60 * d /\ 100 * c < 80 * d)
           /\ Has("fair") <=> (100 * c >= 40 * d /\ 100 * c < 60 * d)
           /\ Has("challenging") <=> 100 * c < 40 * d

\* A report of a schedule whose percentage is exactly 80
C22_Witness ==
    /\ sresult.via = "report"
    /\ Len(sinput.schedule.tasks) > 0
    /\ 100 * Cardinality(sinput.state.completed_tasks) = 80 * Len(sinput.schedule.tasks)
    /\ sresult.value.insights[1].line = "excellent"

\* C23: the report has the incomplete-high-priority warning iff some task
\* of priority high is not completed, and the all-high-priority-completed
\* line iff the schedule has a high-priority task and all of them are
\* completed; never both, and neither without a high-priority task.
C23_HighPriorityLines ==
    sresult.via = "report" =>
       LET insights == sresult.value.insights
           Has(line) == \E i \in DOMAIN insights : insights[i].line = line
           open == OfPriority("high") \ DoneOfPriority("high")
       IN  /\ Has("high_priority_incomplete") <=> open # {}
           /\ Has("all_high_priority_completed")
                 <=> (OfPriority("high") # {} /\ open = {})
           /\ ~(Has("high_priority_incomplete") /\ Has("all_high_priority_completed"))
           /\ OfPriority("high") = {} =>
                 ~Has("high_priority_incomplete") /\ ~Has("all_high_priority_completed")
           /\ Cardinality({i \in DOMAIN insights :
                             insights[i].line = "high_priority_incomplete"}) <= 1
           /\ Cardinality({i \in DOMAIN insights :
                             insights[i].line = "all_high_priority_completed"}) <= 1

\* A report of a schedule without a high-priority task, everything completed
C23_Witness ==
    /\ sresult.via = "report"
    /\ sinput.schedule.tasks # << >>
    /\ OfPriority("high") = {}
    /\ \A i \in DOMAIN sinput.schedule.tasks :
          sinput.schedule.tasks[i].id \in sinput.state.completed_tasks
    /\ Len(sresult.value.insights) = 1

C25_DescriptionTruncation ==
    sresult.via = "report" =>
       LET Shown(description) ==
             IF description = "" THEN None
             ELSE IF Len(description) > 60
             THEN SubSeq(description, 1, 60) \o "..."
             ELSE description
           r == sresult.value
       IN  /\ \A i \in DOMAIN r.completed_task_list :
                 r.completed_lines[i] = Shown(r.completed_task_list[i].description)
           /\ \A i \in DOMAIN r.incomplete_task_list :
                 r.incomplete_lines[i] = Shown(r.incomplete_task_list[i].description)

(***************************************************************************)
(* Properties of save_report (SpecReports).                                *)
(***************************************************************************)
\* C26: a save_report call that returns has created the reports directory
\* if it was missing and written the report to
\* <reports_dir>/<schedule date as YYYY-MM-DD>.txt, replacing what that
\* file held; the file then holds the report of this call, and every other
\* file, the reports of other dates among them, is as it was.  So after
\* any sequence of calls there is at most one report file per date,
\* holding the report of the most recent call for that date.
C26_SaveReport ==
    (last.op = "save_report" /\ last.msg = NoExc) =>
       LET date == last.ret.schedule.date
           path == ReportsDir \o "/" \o ToString(date.year) \o "-"
                     \o Pad2(date.month) \o "-" \o Pad2(date.day) \o ".txt"
       IN  /\ last.ret.path = path
           /\ fs[ReportsDir] = Directory
           /\ fs[path] = TextFile(generate_report(last.ret.schedule, last.ret.state, now))
           /\ \A p \in Paths \ {path, ReportsDir} : fs[p] = last.before[p]

\* A report is saved over an earlier, different report of the same date
\* while a report of the other date is there
C26_Witness ==
    /\ last.op = "save_report"
    /\ last.msg = NoExc
    /\ last.before[last.ret.path].kind = "text"
    /\ last.before[last.ret.path] # fs[last.ret.path]
    /\ \E d \in Dates : /\ d # last.ret.schedule.date
                        /\ fs[ReportPath(d)].kind = "text"

(***************************************************************************)
(* Properties of the trend analysis (SpecLib).                             *)
(***************************************************************************)
\* The percentages of the reports read, newest first, in tenths
ParsedPercentages ==
    LET files == SubSeq(sinput.reports_dir.files, 1,
                        IF sinput.days < Len(sinput.reports_dir.files)
                        THEN sinput.days ELSE Len(sinput.reports_dir.files))
        read == SelectSeq(files, LAMBDA f : f.kind = "text")
    IN  [i \in DOMAIN read |-> read[i].text.completion_pct]

SumOf(q) ==
    LET RECURSIVE Sum(_)
        Sum(r) == IF r = << >> THEN 0 ELSE Head(r) + Sum(Tail(r))
    IN  Sum(q)

\* C27: when analyze_productivity_trends returns statistics, the trend is
\* insufficient_data for fewer than 2 percentages; otherwise, recent being
\* the mean of the (up to) 3 most recent and older the mean of the
\* remaining ones, improving iff recent > older + 5, declining iff
\* recent < older - 5, stable otherwise, and stable when nothing remains.
C27_TrendClassification ==
    (sresult.via = "trends" /\ "trend" \in DOMAIN sresult.value) =>
       LET dc == ParsedPercentages
           trend == sresult.value.trend
           m == Len(dc) - 3
           \* recent - older > 5, with both means in tenths of a percent
           Above == SumOf(SubSeq(dc, 1, 3)) * m > (SumOf(SubSeq(dc, 4, Len(dc))) + 50 * m) * 3
           Below == SumOf(SubSeq(dc, 1, 3)) * m < (SumOf(SubSeq(dc, 4, Len(dc))) - 50 * m) * 3
       IN  IF Len(dc) < 2 THEN trend = "insufficient_data"
           ELSE IF Len(dc) <= 3 THEN trend = "stable"
           ELSE /\ trend = "improving" <=> Above
                /\ trend = "declining" <=> Below
                /\ trend = "stable" <=> (~Above /\ ~Below)

(***************************************************************************)
(* Properties of the toggle against other processes (SpecView).            *)
(***************************************************************************)
\* C28: a toggle of task t leaves on disk the opposite of the status the
\* session showed for t at its last render, whatever t's status on disk
\* was when the key was pressed; so when another process changed t's
\* status after that render, t keeps the status the other process gave it.
C28_ToggleWritesOppositeOfShown ==
    (last.op = "toggle" /\ last.msg = "toggled") =>
        /\ Readable(last.before[StateFile])
        /\ Readable(fs[StateFile])
        /\ last.task \in After.completed_tasks <=> ~ShownComplete(last.task)
        /\ (last.task \in Before.completed_tasks <=> ~ShownComplete(last.task))
              => (last.task \in After.completed_tasks
                     <=> last.task \in Before.completed_tasks)

\* Another process completed t after the render that showed it incomplete,
\* or undid t after the render that showed it complete, and then t was
\* toggled in the session
C28_Witness ==
    /\ last.op = "toggle"
    /\ last.msg = "toggled"
    /\ Readable(last.before[StateFile])
    /\ last.task \in Before.completed_tasks <=> ~ShownComplete(last.task)
    /\ last.task \in After.completed_tasks <=> last.task \in Before.completed_tasks

(***************************************************************************)
(* Properties of the validator and the current task together (SpecLib).    *)
(***************************************************************************)
\* The positions of the tasks of the validated schedule whose [start, end)
\* holds the time of day t
ActiveAt(t) ==
    {i \in DOMAIN sinput.schedule.tasks :
        /\ MinuteOfDay(sinput.schedule.tasks[i].start_time) <= t.hour * 60 + t.minute
        /\ t.hour * 60 + t.minute < MinuteOfDay(sinput.schedule.tasks[i].end_time)}

OverlapReported == \E k \in DOMAIN sresult.warnings : sresult.warnings[k].type = "overlap"

\* C29: when validate_schedule with the overlap check reports no overlap
\* warning, at most one task's [start, end) holds any time t and
\* get_current_task(t) is that task (None when there is none); when it
\* reports one, there is a time t at which two tasks are active and
\* get_current_task(t) is the one that comes first in the sorted list
C29_OverlapWarningsDecideCurrentTask ==
    (sresult.via = "active") =>
        /\ ~OverlapReported =>
              \A t \in ActiveTimes :
                 /\ Cardinality(ActiveAt(t)) <= 1
                 /\ ActiveAt(t) = {} => sresult.current[t] = None
                 /\ \A i \in ActiveAt(t) :
                       sresult.current[t] = sinput.schedule.tasks[i]
        /\ OverlapReported =>
              \E t \in ActiveTimes :
                 \E i \in ActiveAt(t) :
                    /\ \E j \in ActiveAt(t) : i < j
                    /\ \A j \in ActiveAt(t) : i <= j
                    /\ sresult.current[t] = sinput.schedule.tasks[i]

\* C29 witness: three tasks, the second ends where the third starts and
\* no overlap is reported, and at that time the third is the current one
C29_Witness ==
    /\ sresult.via = "active"
    /\ ~OverlapReported
    /\ Len(sinput.schedule.tasks) = 3
    /\ sinput.schedule.tasks[2].end_time = <<9, 12>>
    /\ sinput.schedule.tasks[3].start_time = <<9, 12>>
    /\ sresult.current[[hour |-> 9, minute |-> 12]] = sinput.schedule.tasks[3]

(***************************************************************************)
(* Properties of the load command (SpecFiles).                             *)
(***************************************************************************)
\* C30: a load that succeeds leaves a state with no completed task and no
\* note, whose schedule_file and schedule_date are those of the schedule
\* loaded, whatever state there was before; a load whose schedule file
\* does not parse exits non-zero and leaves the state file as it was
C30_LoadReplacesState ==
    (last.op = "load") =>
        /\ last.exit = 0 =>
              /\ Readable(fs[StateFile])
              /\ After.completed_tasks = {}
              /\ DOMAIN After.task_notes = {}
              /\ \E f \in ScheduleFiles :
                    /\ After.schedule_file = f
                    /\ load_schedule(last.before[f]).exc = NoExc
                    /\ After.schedule_date = load_schedule(last.before[f]).value.date
        /\ last.msg = "schedule_error" =>
              /\ last.exit # 0
              /\ fs[StateFile] = last.before[StateFile]

\* C30 witness: the file whose state held a completed task is loaded again
C30_Witness ==
    /\ last.op = "load"
    /\ last.exit = 0
    /\ Readable(last.before[StateFile])
    /\ Before.completed_tasks # {}
    /\ Before.schedule_file = After.schedule_file
    /\ After.completed_tasks = {}
====
